---- MODULE Spec2Model ----
(***************************************************************************)
(* Request deduplication and suggestion caching of the inline completion   *)
(* provider (GhostInlineCompletionProvider).                                *)
(*                                                                         *)
(* Strings are sequences of one-character strings.  The JavaScript event   *)
(* loop is modelled by macrotask actions (a trigger, the end of prompt      *)
(* construction, a timer firing, the settling of a backend call, dispose)  *)
(* that run only when the microtask queue is empty, and by RunMicrotask,   *)
(* which runs the continuation at the head of the microtask queue.         *)
(***************************************************************************)
EXTENDS Integers, Sequences, FiniteSets, TLC

\* ---------------------------------------------------------------- bounds
MaxTriggers == 3
MaxDispose == 2
MaxInserts == 25
MaxHistoryLen == 3
MaxMatches == 2
MaxEntryCalls == 2

\* ------------------------------------------------------ program constants
MAX_SUGGESTIONS_HISTORY == 20

\* ------------------------------------------------------------ inputs
\* cursor contexts: "f", then "fu" typed ahead of it, "u" diverging from both,
\* and "f" again before another suffix
Prefixes == {<<"f">>, <<"f","u">>, <<"u">>}
Contexts == (Prefixes \X {<<>>}) \cup {<< <<"f">>, <<"z">> >>}
\* texts the backend returns: none, one that continues "u", one that does not
Texts == {<<>>, <<"f">>, <<"u">>, <<"u","f">>}
\* suggestions passed to updateSuggestions directly: 30 that differ in prefix,
\* suffix or text
HistoryPool ==
    [n \in 1..30 |->
        [text |-> SubSeq(<<"u", "f", "u", "f">>, 1, (n - 1) % 5),
         prefix |-> <<"f">> \o SubSeq(<<"u", "f">>, 1, ((n - 1) \div 5) % 3),
         suffix |-> IF n > 15 THEN <<"z">> ELSE <<>>]]

\* entries of the histories findMatchingSuggestion is called on directly
MatcherEntries ==
    [text : Texts, prefix : {<<"f">>, <<"f", "u">>}, suffix : {<<>>, <<"z">>}]
\* the contexts it is called with
MatcherQueries ==
    {<<"f">>, <<"f", "u">>, <<"f", "u", "f">>, <<"u">>} \X {<<>>, <<"z">>}

\* what getSettings() returns: null, settings without enableAutoTrigger, and
\* settings with enableAutoTrigger false or true
SettingsValues == {"null", "unset", "false", "true"}
\* documents: untitled, or titled with a file name for which validateAccess
\* returns true, returns false or throws
Documents == {"untitled", "allowed", "denied", "throws"}
\* the promise passed as ignoreController: none, or one that is pending,
\* resolved with a controller, or rejected
ControllerStates == {"none", "pending", "resolved", "rejected"}

\* errors getFromLLM rejects with, by name
ErrorNames == {"Error", "AbortError"}

VARIABLES
    suggestionsHistory,  \* FillInAtCursorSuggestion[], most recent last
    debounceTimer,       \* the debounceTimer field: 0 (null) or a timer handle
    timers,              \* timer handles armed in the runtime (setTimeout, not fired, not cleared)
    pendingRequests,     \* the Map, in insertion order: <<[key, id]>>
    fetches,             \* every request created so far: promise, abort controller, backend call
    trig,                \* every call of provideInlineCompletionItems_Internal so far
    microQ,              \* microtask queue: continuations of settled promises
    console,             \* console.error / console.warn events
    writes,              \* every call of updateSuggestions made by fetchAndCacheSuggestion
    disposeCount,        \* dispose() calls so far
    inserted,            \* the suggestions direct updateSuggestions calls appended
    matched,             \* the findMatchingSuggestion calls made directly: arguments and result
    model,               \* the model field: TRUE when the provider was given a GhostModel
    ignoreController,    \* the ignoreController field: "none", or the state of the promise
    calls,               \* for each provideInlineCompletionItems call: its inputs and how it passed
    costCalls,           \* the calls of costTrackingCallback so far: the request and its cost
    reuseLookups,        \* the findReusablePendingRequest calls made directly: arguments and result
    \* the CLI run route (ensureCliBuild)
    cliBuildPromise,     \* the module-level slot: 0 (null) or the build whose promise it holds
    builders,            \* every build process spawned so far: running, or how it ended
    ensureCalls,         \* every call of ensureCliBuild so far and where it stands
    cliDist,             \* the file system: cli/dist is missing, older than cli/src, or fresh
    \* the CLI run route (createStreamFromProcess)
    closed,              \* the closed flag of the closure
    streamController,    \* the ReadableStream and its controller: state, chunks, close() calls
    child,               \* the child process: signals sent to it, events it emitted so far
    \* the web chat session (WebChatSession)
    service,             \* the service field: 0 (null) or the ExtensionService it holds
    services,            \* every ExtensionService created so far and its condition
    isStarted,           \* the isStarted field
    extensionState,      \* the state field: <<>> (null) or <<the ExtensionState>>
    availableModes,      \* the availableModes field
    sessionCalls,        \* every call of a method of the session so far and where it stands
    sent,                \* every sendWebviewMessage call made on a service
    emitted,             \* every "state" event the session emitted
    \* the web client (auto-approval)
    config,              \* the AutoApprovalConfig the decision is taken under
    decisions            \* the getCommandDecision calls made: the command and the decision

providerVars == <<suggestionsHistory, debounceTimer, timers, pendingRequests, fetches, trig,
                  microQ, console, writes, disposeCount, inserted, matched,
                  model, ignoreController, calls, costCalls, reuseLookups>>

buildVars == <<cliBuildPromise, builders, ensureCalls, cliDist>>

streamVars == <<closed, streamController, child>>

sessionVars == <<service, services, isStarted, extensionState, availableModes,
                 sessionCalls, sent, emitted>>

approvalVars == <<config, decisions>>

webVars == <<buildVars, streamVars, sessionVars, approvalVars>>

vars == <<providerVars, webVars>>

entryVars == <<model, ignoreController, calls>>

\* ------------------------------------------------------------ strings
\* String.prototype.startsWith
StartsWith(s, p) == Len(p) <= Len(s) /\ SubSeq(s, 1, Len(p)) = p

\* String.prototype.substring(n)
Substring(s, n) == SubSeq(s, n + 1, Len(s))

Null == [found |-> FALSE, text |-> <<>>]
Some(t) == [found |-> TRUE, text |-> t]

\* ------------------------------------------------------------ matcher
RECURSIVE ScanHistory(_, _, _, _)
ScanHistory(prefix, suffix, history, i) ==
    IF i = 0 THEN Null
    ELSE LET e == history[i] IN
         IF prefix = e.prefix /\ suffix = e.suffix THEN Some(e.text)
         ELSE IF /\ e.text # <<>>
                 /\ StartsWith(prefix, e.prefix)
                 /\ suffix = e.suffix
                 /\ StartsWith(e.text, Substring(prefix, Len(e.prefix)))
              THEN Some(Substring(e.text, Len(Substring(prefix, Len(e.prefix)))))
              ELSE ScanHistory(prefix, suffix, history, i - 1)

\* faulty variant: the history is scanned from the oldest entry
findMatchingSuggestionOldestFirst(prefix, suffix, history) ==
    ScanHistory(prefix, suffix,
                [i \in 1..Len(history) |-> history[Len(history) + 1 - i]],
                Len(history))

\* faulty variant: an empty cached text counts as no match
findMatchingSuggestionTruthy(prefix, suffix, history) ==
    LET m == ScanHistory(prefix, suffix, history, Len(history)) IN
    IF m.text = <<>> THEN Null ELSE m

findMatchingSuggestion(prefix, suffix, history) ==
    ScanHistory(prefix, suffix, history, Len(history))

\* [] for the empty text, else one item with insertText = text
stringToInlineCompletions(text) ==
    IF text = <<>> THEN <<>> ELSE <<[insertText |-> text]>>

\* ------------------------------------------------------------ history
isDuplicate(history, s) ==
    \E i \in 1..Len(history) :
        /\ history[i].text = s.text
        /\ history[i].prefix = s.prefix
        /\ history[i].suffix = s.suffix

\* faulty variant: a duplicate is moved to the end of the history
updateSuggestionsRefresh(history, s) ==
    LET pushed == Append(SelectSeq(history, LAMBDA e : e # s), s) IN
    IF Len(pushed) > MAX_SUGGESTIONS_HISTORY THEN Tail(pushed) ELSE pushed

\* faulty variant: the newest entry is dropped when the history is full
updateSuggestionsPop(history, s) ==
    IF isDuplicate(history, s) THEN history
    ELSE IF Len(history) >= MAX_SUGGESTIONS_HISTORY THEN history
    ELSE Append(history, s)

updateSuggestions(history, s) ==
    IF isDuplicate(history, s) THEN history
    ELSE LET pushed == Append(history, s) IN
         IF Len(pushed) > MAX_SUGGESTIONS_HISTORY THEN Tail(pushed) ELSE pushed

Suggestion(text, prefix, suffix) == [text |-> text, prefix |-> prefix, suffix |-> suffix]

\* ------------------------------------------------------------ registry
Separator == <<"|", "|", "|">>
getCacheKey(prefix, suffix) == prefix \o Separator \o suffix

\* Map.prototype.get: the id stored under key, 0 for undefined
MapGet(m, key) ==
    IF \E i \in 1..Len(m) : m[i].key = key
    THEN m[CHOOSE i \in 1..Len(m) : m[i].key = key].id
    ELSE 0

\* Map.prototype.set: an existing key keeps its place, a new key goes last
MapSet(m, key, id) ==
    IF \E i \in 1..Len(m) : m[i].key = key
    THEN [i \in 1..Len(m) |-> IF m[i].key = key THEN [key |-> key, id |-> id] ELSE m[i]]
    ELSE Append(m, [key |-> key, id |-> id])

\* faulty variant: the entry is left in the Map
MapDeleteNothing(m, key) == m

\* Map.prototype.delete
MapDelete(m, key) == SelectSeq(m, LAMBDA e : e.key # key)

\* faulty variant: only the exact key is looked up
findReusableExactKeyOnly(pend, fs, prefix, suffix) ==
    MapGet(pend, getCacheKey(prefix, suffix))

\* the pending request registered under the exact key, else the first one in
\* iteration order with the same suffix whose prefix the incoming prefix extends
findReusablePendingRequest(pend, fs, prefix, suffix) ==
    LET exactMatch == MapGet(pend, getCacheKey(prefix, suffix))
        Reusable(i) == /\ fs[pend[i].id].suffix = suffix
                       /\ StartsWith(prefix, fs[pend[i].id].prefix)
    IN  IF exactMatch # 0 THEN exactMatch
        ELSE IF \E i \in 1..Len(pend) : Reusable(i)
             THEN pend[CHOOSE i \in 1..Len(pend) :
                          Reusable(i) /\ \A j \in 1..(i - 1) : ~Reusable(j)].id
             ELSE 0

\* faulty variant: only a different suffix makes a request obsolete
ObsoleteSuffixOnly(pending, prefix, suffix) == pending.suffix # suffix

\* the condition of the invalidation loop
Obsolete(pending, prefix, suffix) ==
    \/ pending.suffix # suffix
    \/ (~StartsWith(prefix, pending.prefix) /\ ~StartsWith(pending.prefix, prefix))

\* the invalidation loop: abort() and delete every obsolete entry
AbortObsolete(fs, pend, prefix, suffix) ==
    [i \in 1..Len(fs) |->
        IF \E k \in 1..Len(pend) : pend[k].id = i /\ Obsolete(fs[i], prefix, suffix)
        THEN [fs[i] EXCEPT !.aborted = TRUE]
        ELSE fs[i]]

DeleteObsolete(fs, pend, prefix, suffix) ==
    SelectSeq(pend, LAMBDA e : ~Obsolete(fs[e.id], prefix, suffix))

\* a new PendingSuggestion with its promise (pending, awaited by its creator) and
\* a fresh AbortController
NewPending(t, prefix, suffix) ==
    [prefix |-> prefix, suffix |-> suffix, owner |-> t, aborted |-> FALSE,
     state |-> "pending", text |-> <<>>, error |-> "",
     waiters |-> <<[kind |-> "own", t |-> t]>>]

\* fetchAndCacheSuggestion from the invalidation loop to `await promise`: the
\* async function has called getFromLLM, the request is registered under its key
NewRequest(t) ==
    LET prefix == trig[t].prefix
        suffix == trig[t].suffix
        id == Len(fetches) + 1
    IN  /\ fetches' = Append(AbortObsolete(fetches, pendingRequests, prefix, suffix),
                             NewPending(t, prefix, suffix))
        /\ pendingRequests' = MapSet(DeleteObsolete(fetches, pendingRequests, prefix, suffix),
                                     getCacheKey(prefix, suffix), id)
        /\ trig' = [trig EXCEPT ![t].pc = "fetching", ![t].own = id]

\* fetchAndCacheSuggestion up to `await reusable.promise`
AwaitReusable(t, id) ==
    /\ fetches' = [fetches EXCEPT ![id].waiters = Append(@, [kind |-> "reuse", t |-> t])]
    /\ trig' = [trig EXCEPT ![t].pc = "reusing", ![t].reused = id]
    /\ UNCHANGED pendingRequests

\* fetchAndCacheSuggestion up to its first await
fetchAndCacheSuggestion(t) ==
    LET reusable == findReusablePendingRequest(pendingRequests, fetches,
                                               trig[t].prefix, trig[t].suffix)
    IN  IF reusable # 0 THEN AwaitReusable(t, reusable) ELSE NewRequest(t)

\* faulty variant: the armed timer is left armed
clearTimeoutForgotten(armed, handle) == armed

\* clearTimeout on the handle held by the debounceTimer field, when it holds one
clearTimeout(armed, handle) == IF handle # 0 THEN armed \ {handle} ELSE armed

\* the error thrown for a request found aborted after getFromLLM returned: an
\* Error whose name is "Error"
AbortedAfterCompletionError == "Request aborted after completion"

\* faulty variant: every error is taken for a cancellation
IsAbortErrorAlways(error) == TRUE

\* error instanceof Error && error.name === "AbortError"
IsAbortError(error) == error = "AbortError"

\* faulty variant: the abort signal is not looked at after the call returned
AbortedNeverChecked(pending) == FALSE

\* the check made after getFromLLM returned: an aborted request throws and
\* stores nothing
AbortedAfterCompletion(pending) == pending.aborted

\* ------------------------------------------------------------ the web programs at load
\* the CLI run route as loaded: no build promise, no build spawned, no call
BuildInit ==
    /\ cliBuildPromise = 0
    /\ builders = <<>>
    /\ ensureCalls = <<>>
    /\ cliDist = "missing"

\* the stream as createStreamFromProcess returns it: open, nothing enqueued
StreamInit ==
    /\ closed = FALSE
    /\ streamController = [state |-> "readable", chunks |-> <<>>, closeCalls |-> 0, errors |-> 0]
    /\ child = [signals |-> <<>>, events |-> 0, skipped |-> 0]

\* a WebChatSession as constructed
SessionInit ==
    /\ service = 0
    /\ services = <<>>
    /\ isStarted = FALSE
    /\ extensionState = <<>>
    /\ availableModes = <<>>
    /\ sessionCalls = <<>>
    /\ sent = <<>>
    /\ emitted = <<>>

\* an AutoApprovalConfig without an execute section
NoExecute == [enabled |-> FALSE, allowed |-> <<>>, denied |-> <<>>]

ApprovalInit ==
    /\ config = NoExecute
    /\ decisions = <<>>

WebInit == BuildInit /\ StreamInit /\ SessionInit /\ ApprovalInit

\* ------------------------------------------------------------ macrotasks
Idle == microQ = <<>>

Init ==
    /\ suggestionsHistory = <<>>
    /\ debounceTimer = 0
    /\ timers = {}
    /\ pendingRequests = <<>>
    /\ fetches = <<>>
    /\ trig = <<>>
    /\ microQ = <<>>
    /\ console = {}
    /\ writes = {}
    /\ disposeCount = 0
    /\ inserted = <<>>
    /\ matched = <<>>
    /\ model = TRUE
    /\ ignoreController = "none"
    /\ calls = <<>>
    /\ costCalls = <<>>
    /\ reuseLookups = <<>>
    /\ WebInit

NewTrigger(prefix, suffix, pc, result) ==
    [prefix |-> prefix, suffix |-> suffix, pc |-> pc, result |-> result,
     own |-> 0, reused |-> 0]

\* faulty variant: the history is not looked at before the prompt is built
TriggerWithoutLookup(prefix, suffix) ==
    /\ Idle
    /\ Len(trig) < MaxTriggers
    /\ trig' = Append(trig, NewTrigger(prefix, suffix, "prompt", <<>>))
    /\ UNCHANGED <<suggestionsHistory, debounceTimer, timers, pendingRequests, fetches,
                   microQ, console, writes, disposeCount, inserted, matched,
                   entryVars, costCalls, reuseLookups, webVars>>

\* provideInlineCompletionItems_Internal up to its first await: a cache hit
\* returns, a miss starts getPrompt
Trigger(prefix, suffix) ==
    /\ Idle
    /\ Len(trig) < MaxTriggers
    /\ LET matchingText == findMatchingSuggestion(prefix, suffix, suggestionsHistory) IN
       trig' = Append(trig,
                 IF matchingText.found
                 THEN NewTrigger(prefix, suffix, "done",
                                 stringToInlineCompletions(matchingText.text))
                 ELSE NewTrigger(prefix, suffix, "prompt", <<>>))
    /\ UNCHANGED <<suggestionsHistory, debounceTimer, timers, pendingRequests, fetches,
                   microQ, console, writes, disposeCount, inserted, matched,
                   entryVars, costCalls, reuseLookups, webVars>>

\* getPrompt has resolved: debouncedFetchAndCacheSuggestion clears the armed
\* timer and arms a new one, whose handle is the trigger's number
PromptReady(t) ==
    /\ Idle
    /\ t \in 1..Len(trig)
    /\ trig[t].pc = "prompt"
    /\ timers' = clearTimeout(timers, debounceTimer) \cup {t}
    /\ debounceTimer' = t
    /\ trig' = [trig EXCEPT ![t].pc = "debounce"]
    /\ UNCHANGED <<suggestionsHistory, pendingRequests, fetches, microQ, console, writes,
                   disposeCount, inserted, matched, entryVars, costCalls, reuseLookups, webVars>>

\* faulty variant: the callback resolves the promise without awaiting the task
TimerFireResolvesEarly(t) ==
    /\ Idle
    /\ t \in timers
    /\ timers' = timers \ {t}
    /\ debounceTimer' = 0
    /\ fetchAndCacheSuggestion(t)
    /\ microQ' = <<[kind |-> "resume", t |-> t]>>
    /\ UNCHANGED <<suggestionsHistory, console, writes, disposeCount,
                   inserted, matched, entryVars, costCalls, reuseLookups, webVars>>

\* the timer callback up to its await
TimerFire(t) ==
    /\ Idle
    /\ t \in timers
    /\ timers' = timers \ {t}
    /\ debounceTimer' = 0
    /\ fetchAndCacheSuggestion(t)
    /\ UNCHANGED <<suggestionsHistory, microQ, console, writes, disposeCount,
                   inserted, matched, entryVars, costCalls, reuseLookups, webVars>>

\* faulty variant: the cost is reported whatever it is
CostReportedAlways(cost) == TRUE

\* `this.costTrackingCallback && result.cost > 0`: the provider is constructed
\* with a callback
CostReported(cost) == cost > 0

\* the async function of a request after `await this.getFromLLM(...)` returned
\* text at the given cost: the abort check, the cost callback, updateSuggestions,
\* and the finally block
LLMResult(f, text, cost) ==
    /\ Idle
    /\ f \in 1..Len(fetches)
    /\ fetches[f].state = "pending"
    /\ LET r == fetches[f]
           suggestion == Suggestion(text, r.prefix, r.suffix)
       IN  /\ IF AbortedAfterCompletion(r)
              THEN /\ fetches' = [fetches EXCEPT ![f].state = "rejected",
                                                 ![f].error = AbortedAfterCompletionError,
                                                 ![f].waiters = <<>>]
                   /\ UNCHANGED <<suggestionsHistory, writes, costCalls>>
              ELSE /\ fetches' = [fetches EXCEPT ![f].state = "fulfilled",
                                                 ![f].text = text, ![f].waiters = <<>>]
                   /\ costCalls' = IF CostReported(cost)
                                   THEN Append(costCalls, [fetch |-> f, cost |-> cost])
                                   ELSE costCalls
                   /\ suggestionsHistory' = updateSuggestions(suggestionsHistory, suggestion)
                   /\ writes' = writes \cup {[fetch |-> f, by |-> 0, entry |-> suggestion]}
           /\ pendingRequests' = MapDelete(pendingRequests, getCacheKey(r.prefix, r.suffix))
           /\ microQ' = r.waiters
    /\ UNCHANGED <<debounceTimer, timers, trig, console, disposeCount, inserted, matched,
                   entryVars, reuseLookups, webVars>>

\* the same with the cost the mocked model of the test reports
LLMReturn(f, text) == LLMResult(f, text, 0)

\* getFromLLM rejected: only the finally block runs
LLMFail(f, name) ==
    /\ Idle
    /\ f \in 1..Len(fetches)
    /\ fetches[f].state = "pending"
    /\ fetches' = [fetches EXCEPT ![f].state = "rejected", ![f].error = name,
                                  ![f].waiters = <<>>]
    /\ pendingRequests' = MapDelete(pendingRequests,
                                    getCacheKey(fetches[f].prefix, fetches[f].suffix))
    /\ microQ' = fetches[f].waiters
    /\ UNCHANGED <<suggestionsHistory, debounceTimer, timers, trig, console, writes,
                   disposeCount, inserted, matched, entryVars, costCalls, reuseLookups, webVars>>

\* faulty variant: the field is set to null but the timer is left armed
DisposeLeavesTimer ==
    /\ Idle
    /\ disposeCount < MaxDispose
    /\ timers' = timers
    /\ debounceTimer' = 0
    /\ fetches' = [i \in 1..Len(fetches) |->
                      IF \E k \in 1..Len(pendingRequests) : pendingRequests[k].id = i
                      THEN [fetches[i] EXCEPT !.aborted = TRUE]
                      ELSE fetches[i]]
    /\ pendingRequests' = <<>>
    /\ disposeCount' = disposeCount + 1
    /\ UNCHANGED <<suggestionsHistory, trig, microQ, console, writes, inserted,
                   matched, entryVars, costCalls, reuseLookups, webVars>>

Dispose ==
    /\ Idle
    /\ disposeCount < MaxDispose
    /\ timers' = clearTimeout(timers, debounceTimer)
    /\ debounceTimer' = 0
    /\ fetches' = [i \in 1..Len(fetches) |->
                      IF \E k \in 1..Len(pendingRequests) : pendingRequests[k].id = i
                      THEN [fetches[i] EXCEPT !.aborted = TRUE]
                      ELSE fetches[i]]
    /\ pendingRequests' = <<>>
    /\ disposeCount' = disposeCount + 1
    /\ UNCHANGED <<suggestionsHistory, trig, microQ, console, writes, inserted,
                   matched, entryVars, costCalls, reuseLookups, webVars>>

\* ------------------------------------------------------------ microtasks
\* fetchAndCacheSuggestion after `await promise` (its own request), then the
\* timer callback's resolve()
OwnCont(t) ==
    LET f == trig[t].own IN
    /\ console' = IF fetches[f].state = "rejected" /\ ~IsAbortError(fetches[f].error)
                  THEN console \cup {[level |-> "error", t |-> t, fetch |-> f]}
                  ELSE console
    /\ trig' = [trig EXCEPT ![t].pc = "resuming"]
    /\ microQ' = Append(Tail(microQ), [kind |-> "resume", t |-> t])
    /\ UNCHANGED <<suggestionsHistory, pendingRequests, fetches, writes>>

\* faulty variant: the text is stored under the incoming context without removing what
\* was typed
ReusedSuggestionUnadjusted(prefix, suffix, reusable) ==
    Suggestion(reusable.text, prefix, suffix)

\* the suggestion a reusing trigger stores: adjusted when it typed ahead of the
\* reused request and the text continues what it typed, else the result as it is
ReusedSuggestion(prefix, suffix, reusable) ==
    LET typedAhead == Substring(prefix, Len(reusable.prefix)) IN
    IF /\ StartsWith(prefix, reusable.prefix)
       /\ prefix # reusable.prefix
       /\ StartsWith(reusable.text, typedAhead)
    THEN Suggestion(Substring(reusable.text, Len(typedAhead)), prefix, suffix)
    ELSE Suggestion(reusable.text, reusable.prefix, reusable.suffix)

\* fetchAndCacheSuggestion after `await reusable.promise`
ReuseCont(t) ==
    LET f == trig[t].reused
        r == fetches[f]
        s == ReusedSuggestion(trig[t].prefix, trig[t].suffix, r)
    IN  IF r.state = "fulfilled"
        THEN /\ IF r.aborted
                THEN UNCHANGED <<suggestionsHistory, writes>>
                ELSE /\ suggestionsHistory' = updateSuggestions(suggestionsHistory, s)
                     /\ writes' = writes \cup {[fetch |-> f, by |-> t, entry |-> s]}
             /\ trig' = [trig EXCEPT ![t].pc = "resuming"]
             /\ microQ' = Append(Tail(microQ), [kind |-> "resume", t |-> t])
             /\ UNCHANGED <<pendingRequests, fetches, console>>
        ELSE IF IsAbortError(r.error)
        THEN /\ trig' = [trig EXCEPT ![t].pc = "resuming"]
             /\ microQ' = Append(Tail(microQ), [kind |-> "resume", t |-> t])
             /\ UNCHANGED <<suggestionsHistory, pendingRequests, fetches, console, writes>>
        ELSE /\ console' = console \cup {[level |-> "warn", t |-> t, fetch |-> f]}
             /\ NewRequest(t)
             /\ microQ' = Tail(microQ)
             /\ UNCHANGED <<suggestionsHistory, writes>>

\* provideInlineCompletionItems_Internal after the debounced promise resolved
Resume(t) ==
    LET cachedText == findMatchingSuggestion(trig[t].prefix, trig[t].suffix,
                                             suggestionsHistory)
    IN  /\ trig' = [trig EXCEPT ![t].pc = "done",
                                ![t].result = stringToInlineCompletions(
                                    IF cachedText.found THEN cachedText.text ELSE <<>>)]
        /\ microQ' = Tail(microQ)
        /\ UNCHANGED <<suggestionsHistory, pendingRequests, fetches, console, writes>>

RunMicrotask ==
    /\ microQ # <<>>
    /\ LET m == Head(microQ) IN
       CASE m.kind = "own" -> OwnCont(m.t)
         [] m.kind = "reuse" -> ReuseCont(m.t)
         [] m.kind = "resume" -> Resume(m.t)
    /\ UNCHANGED <<debounceTimer, timers, disposeCount, inserted, matched, entryVars, costCalls, reuseLookups, webVars>>

Next ==
    \/ \E c \in Contexts : Trigger(c[1], c[2])
    \/ \E t \in 1..MaxTriggers : PromptReady(t)
    \/ \E t \in 1..MaxTriggers : TimerFire(t)
    \/ \E f \in 1..MaxTriggers, text \in Texts : LLMReturn(f, text)
    \/ \E f \in 1..MaxTriggers, name \in ErrorNames : LLMFail(f, name)
    \/ Dispose
    \/ RunMicrotask

Spec == Init /\ [][Next]_vars

\* ------------------------------------------------------------ history alone
\* updateSuggestions called from outside with suggestion s
CallUpdateSuggestions(s) ==
    /\ suggestionsHistory' = updateSuggestions(suggestionsHistory, s)
    /\ inserted' = IF isDuplicate(suggestionsHistory, s) THEN inserted
                   ELSE Append(inserted, s)
    /\ UNCHANGED <<debounceTimer, timers, pendingRequests, fetches, trig, microQ,
                   console, writes, disposeCount, matched, entryVars, costCalls, reuseLookups, webVars>>

PoolIndex(s) == CHOOSE n \in 1..Len(HistoryPool) : HistoryPool[n] = s

\* a suggestion not passed before: any to start with, then the next of the pool
InsertDistinct(n) ==
    /\ Len(inserted) < MaxInserts
    /\ IF inserted = <<>> THEN TRUE
       ELSE n = (PoolIndex(inserted[Len(inserted)]) % Len(HistoryPool)) + 1
    /\ \A i \in 1..Len(inserted) : inserted[i] # HistoryPool[n]
    /\ CallUpdateSuggestions(HistoryPool[n])

\* a suggestion the history holds
InsertDuplicate(i) ==
    /\ i \in 1..Len(suggestionsHistory)
    /\ CallUpdateSuggestions(suggestionsHistory[i])

\* a suggestion that was evicted
InsertEvicted(i) ==
    /\ Len(inserted) < MaxInserts
    /\ i \in 1..Len(inserted)
    /\ ~isDuplicate(suggestionsHistory, inserted[i])
    /\ CallUpdateSuggestions(inserted[i])

NextHistory ==
    \/ \E n \in 1..Len(HistoryPool) : InsertDistinct(n)
    \/ \E i \in 1..MAX_SUGGESTIONS_HISTORY : InsertDuplicate(i)
    \/ \E i \in 1..MaxInserts : InsertEvicted(i)

SpecHistory == Init /\ [][NextHistory]_vars

\* ------------------------------------------------------------ matcher alone
\* histories as updateSuggestions leaves them: no two entries the same
MatcherHistories ==
    UNION { { h \in [1..n -> MatcherEntries] :
                \A i, j \in 1..n : h[i] = h[j] => i = j } : n \in 0..MaxHistoryLen }

InitMatcher ==
    /\ suggestionsHistory \in MatcherHistories
    /\ debounceTimer = 0
    /\ timers = {}
    /\ pendingRequests = <<>>
    /\ fetches = <<>>
    /\ trig = <<>>
    /\ microQ = <<>>
    /\ console = {}
    /\ writes = {}
    /\ disposeCount = 0
    /\ inserted = <<>>
    /\ matched = <<>>
    /\ model = TRUE
    /\ ignoreController = "none"
    /\ calls = <<>>
    /\ costCalls = <<>>
    /\ reuseLookups = <<>>
    /\ WebInit

\* findMatchingSuggestion called with the history as it is
CallFindMatchingSuggestion(prefix, suffix) ==
    /\ Len(matched) < MaxMatches
    /\ matched' = Append(matched,
                    [prefix |-> prefix, suffix |-> suffix,
                     result |-> findMatchingSuggestion(prefix, suffix, suggestionsHistory)])
    /\ UNCHANGED <<suggestionsHistory, debounceTimer, timers, pendingRequests, fetches,
                   trig, microQ, console, writes, disposeCount, inserted, entryVars, costCalls, reuseLookups, webVars>>

NextMatcher == \E q \in MatcherQueries : CallFindMatchingSuggestion(q[1], q[2])

SpecMatcher == InitMatcher /\ [][NextMatcher]_vars

\* ------------------------------------------------------------ entry
\* settings?.enableAutoTrigger ?? false
isAutoTriggerEnabled(settings) == settings = "true"

\* faulty variant: an exception of validateAccess lets the call through
AccessOutcomeFailOpen(controller, doc) ==
    IF doc = "untitled" \/ controller = "none" THEN "unchecked"
    ELSE IF controller = "pending" THEN "waiting"
    ELSE IF controller = "rejected" THEN "threw"
    ELSE IF doc = "denied" THEN "denied"
    ELSE "allowed"

\* the access check of provideInlineCompletionItems_Internal: not made for an
\* untitled document or without a controller; waiting on the race while the
\* promise is pending; the catch block when the promise is rejected or
\* validateAccess throws; else what validateAccess returns
AccessOutcome(controller, doc) ==
    IF doc = "untitled" \/ controller = "none" THEN "unchecked"
    ELSE IF controller = "pending" THEN "waiting"
    ELSE IF controller = "rejected" THEN "threw"
    ELSE IF doc = "allowed" THEN "allowed"
    ELSE IF doc = "denied" THEN "denied"
    ELSE "threw"

\* faulty variant: a call without a model goes on to the access check
GateSkipsModel(settings, hasModel, controller, doc) ==
    IF ~isAutoTriggerEnabled(settings) THEN "disabled"
    ELSE AccessOutcome(controller, doc)

\* how far a call gets before the history is looked at
Gate(settings, hasModel, controller, doc) ==
    IF ~isAutoTriggerEnabled(settings) THEN "disabled"
    ELSE IF ~hasModel THEN "noModel"
    ELSE AccessOutcome(controller, doc)

\* the call after its gate: the history lookup and getPrompt when it passed,
\* the await of the race, or `return []`
AfterGate(gate, prefix, suffix) ==
    IF gate \in {"unchecked", "allowed"}
    THEN LET matchingText == findMatchingSuggestion(prefix, suffix, suggestionsHistory) IN
         IF matchingText.found
         THEN NewTrigger(prefix, suffix, "done", stringToInlineCompletions(matchingText.text))
         ELSE NewTrigger(prefix, suffix, "prompt", <<>>)
    ELSE IF gate = "waiting" THEN NewTrigger(prefix, suffix, "access", <<>>)
    ELSE NewTrigger(prefix, suffix, "done", <<>>)

\* console.error of the catch block of the access check
AccessErrors(t, gate) ==
    IF gate = "threw" THEN {[level |-> "error", t |-> t, fetch |-> 0]} ELSE {}

InitEntry ==
    /\ suggestionsHistory = <<>>
    /\ debounceTimer = 0
    /\ timers = {}
    /\ pendingRequests = <<>>
    /\ fetches = <<>>
    /\ trig = <<>>
    /\ microQ = <<>>
    /\ console = {}
    /\ writes = {}
    /\ disposeCount = 0
    /\ inserted = <<>>
    /\ matched = <<>>
    /\ model \in BOOLEAN
    /\ ignoreController \in ControllerStates
    /\ calls = <<>>
    /\ costCalls = <<>>
    /\ reuseLookups = <<>>
    /\ WebInit

\* provideInlineCompletionItems up to its first await that is not settled yet
ProvideInlineCompletionItems(settings, doc, prefix, suffix) ==
    /\ Idle
    /\ Len(trig) < MaxEntryCalls
    /\ LET gate == Gate(settings, model, ignoreController, doc) IN
       /\ trig' = Append(trig, AfterGate(gate, prefix, suffix))
       /\ calls' = Append(calls, [settings |-> settings, doc |-> doc, gate |-> gate])
       /\ console' = console \cup AccessErrors(Len(trig) + 1, gate)
    /\ UNCHANGED <<suggestionsHistory, debounceTimer, timers, pendingRequests, fetches,
                   microQ, writes, disposeCount, inserted, matched, model,
                   ignoreController, costCalls, reuseLookups, webVars>>

\* the ignoreController promise settles: every call waiting on the race goes on
ControllerSettles(state) ==
    /\ Idle
    /\ ignoreController = "pending"
    /\ ignoreController' = state
    /\ LET gate(t) == AccessOutcome(state, calls[t].doc) IN
       /\ trig' = [t \in 1..Len(trig) |->
                     IF trig[t].pc = "access"
                     THEN AfterGate(gate(t), trig[t].prefix, trig[t].suffix)
                     ELSE trig[t]]
       /\ calls' = [t \in 1..Len(calls) |->
                      IF trig[t].pc = "access" THEN [calls[t] EXCEPT !.gate = gate(t)]
                      ELSE calls[t]]
       /\ console' = console \cup
                     UNION {AccessErrors(t, gate(t)) : t \in {u \in 1..Len(trig) :
                                                                trig[u].pc = "access"}}
    /\ UNCHANGED <<suggestionsHistory, debounceTimer, timers, pendingRequests, fetches,
                   microQ, writes, disposeCount, inserted, matched, model,
                   costCalls, reuseLookups, webVars>>

\* the 50 ms timer of the race fires first: the race resolves with null
AccessTimeout(t) ==
    /\ Idle
    /\ t \in 1..Len(trig)
    /\ trig[t].pc = "access"
    /\ trig' = [trig EXCEPT ![t].pc = "done"]
    /\ calls' = [calls EXCEPT ![t].gate = "notResolved"]
    /\ UNCHANGED <<suggestionsHistory, debounceTimer, timers, pendingRequests, fetches,
                   microQ, console, writes, disposeCount, inserted, matched, model,
                   ignoreController, costCalls, reuseLookups, webVars>>

NextEntry ==
    \/ \E settings \in SettingsValues, doc \in Documents, c \in Contexts :
          ProvideInlineCompletionItems(settings, doc, c[1], c[2])
    \/ \E state \in {"resolved", "rejected"} : ControllerSettles(state)
    \/ \E t \in 1..MaxEntryCalls : AccessTimeout(t)
    \/ \E t \in 1..MaxEntryCalls : PromptReady(t)
    \/ \E t \in 1..MaxEntryCalls : TimerFire(t)
    \/ \E f \in 1..MaxEntryCalls, text \in Texts : LLMReturn(f, text)
    \/ \E f \in 1..MaxEntryCalls, name \in ErrorNames : LLMFail(f, name)
    \/ Dispose
    \/ RunMicrotask

SpecEntry == InitEntry /\ [][NextEntry]_vars

\* ============================================================ properties
Triggers == 1..Len(trig)
Fetches == 1..Len(fetches)

SameContext(a, b) == a.prefix = b.prefix /\ a.suffix = b.suffix

\* the trigger found no match in the history when it was issued
Missed(t) == trig[t].pc # "done" \/ trig[t].own # 0 \/ trig[t].reused # 0

Registered(f) == \E k \in 1..Len(pendingRequests) : pendingRequests[k].id = f

\* nothing is left to run
Quiescent ==
    /\ microQ = <<>>
    /\ timers = {}
    /\ \A t \in Triggers : trig[t].pc # "prompt"
    /\ \A f \in Fetches : fetches[f].state # "pending"

\* the step in which the trigger's debounce timer fires: it reaches
\* fetchAndCacheSuggestion
Fired(t) == trig[t].pc = "debounce" /\ trig'[t].pc # "debounce"

ProperPrefix(p, q) == StartsWith(q, p) /\ p # q
Diverge(p, q) == ~StartsWith(p, q) /\ ~StartsWith(q, p)
InFlight(f) == fetches[f].state = "pending" /\ ~fetches[f].aborted
InHistory(history, s) == \E i \in 1..Len(history) : history[i] = s

\* C1 -- Dedup: two triggers with the same context, both issued on a history
\* without a match and with no backend call failing, lead to exactly one
\* backend call: never a second one, and one once nothing is left to run.
C1_DedupOnce ==
    ( /\ Len(trig) = 2
      /\ SameContext(trig[1], trig[2])
      /\ Missed(1) /\ Missed(2)
      /\ disposeCount = 0
      /\ \A f \in Fetches : fetches[f].state # "rejected" )
    => /\ Len(fetches) <= 1
       /\ Quiescent => Len(fetches) = 1

\* C2 -- At most one pending fetch per exact key: a step that starts a backend
\* call finds no entry under its key in the registry and no call for the same
\* prefix and suffix that is still outstanding and not cancelled.
C2_OnePendingPerKey ==
    [][ Len(fetches') > Len(fetches) =>
          LET n == fetches'[Len(fetches')] IN
          /\ MapGet(pendingRequests, getCacheKey(n.prefix, n.suffix)) = 0
          /\ \A g \in Fetches :
                ~( /\ fetches[g].state = "pending"
                   /\ ~fetches'[g].aborted
                   /\ SameContext(fetches[g], n) ) ]_vars

\* the context of the second trigger is that of the first with more typed
TypedAheadPair ==
    /\ trig[1].suffix = trig[2].suffix
    /\ ProperPrefix(trig[1].prefix, trig[2].prefix)

Typed(t) == Substring(trig[t].prefix, Len(fetches[trig[t].reused].prefix))

\* the trigger waited on a fetch issued for a proper prefix of its prefix, and
\* the fetched text starts with what was typed since
AdjustCase(t) ==
    /\ trig[t].reused # 0
    /\ fetches[trig[t].reused].state = "fulfilled"
    /\ ProperPrefix(fetches[trig[t].reused].prefix, trig[t].prefix)
    /\ StartsWith(fetches[trig[t].reused].text, Typed(t))

Rest(t) == Substring(fetches[trig[t].reused].text, Len(Typed(t)))

\* C4 -- Adjustment correctness: when a trigger with prefix P+t waited on a
\* fetch issued for P whose text starts with t, then once its wait is over the
\* history holds {P+t, suffix, text without the leading t}, and the trigger
\* returns that remaining text.
C4_Adjustment ==
    [][ \A t \in Triggers :
           AdjustCase(t) =>
             /\ (trig[t].pc = "reusing" /\ trig'[t].pc # "reusing")
                => InHistory(suggestionsHistory',
                             Suggestion(Rest(t), trig[t].prefix, trig[t].suffix))
             /\ (trig[t].pc # "done" /\ trig'[t].pc = "done")
                => trig'[t].result =
                      IF Rest(t) = <<>> THEN <<>> ELSE <<[insertText |-> Rest(t)]>> ]_vars

C4_Witness ==
    \E t \in Triggers :
        /\ AdjustCase(t)
        /\ trig[t].pc = "done"
        /\ trig[t].prefix = <<"f", "u">>
        /\ fetches[trig[t].reused].text = <<"u", "f">>
        /\ trig[t].result = <<[insertText |-> <<"f">>]>>
        /\ InHistory(suggestionsHistory, Suggestion(<<"f">>, <<"f", "u">>, trig[t].suffix))

\* the contexts of the two triggers have the same suffix and diverging prefixes
DivergingPair ==
    /\ trig[1].suffix = trig[2].suffix
    /\ Diverge(trig[1].prefix, trig[2].prefix)

C6_CancelledNeverStored ==
    \A w \in writes : ~fetches[w.fetch].aborted

\* a cancelled fetch whose backend call returned text, with a trigger that
\* waited on it and has gone on
C6_Witness ==
    \E f \in Fetches : \E t \in Triggers :
        /\ fetches[f].aborted
        /\ fetches[f].error = AbortedAfterCompletionError
        /\ trig[t].reused = f
        /\ trig[t].pc # "reusing"
        /\ writes # {}

\* C7 -- Disposal cleanup: dispose signals cancellation on every fetch still
\* outstanding, empties the registry, disarms the timer and leaves the history
\* as it is; and no result of a cancelled fetch is stored afterwards.
C7_DisposeCancelsAll ==
    [][ /\ disposeCount' = disposeCount + 1
           => /\ \A f \in Fetches : fetches[f].state = "pending" => fetches'[f].aborted
              /\ pendingRequests' = <<>>
              /\ debounceTimer' = 0
              /\ timers' = {}
              /\ suggestionsHistory' = suggestionsHistory
        /\ \A w \in writes' : ~fetches'[w.fetch].aborted ]_vars

Hits(e, prefix, suffix) ==
    \/ e.prefix = prefix /\ e.suffix = suffix
    \/ /\ e.text # <<>>
       /\ e.suffix = suffix
       /\ StartsWith(prefix, e.prefix)
       /\ StartsWith(e.text, Substring(prefix, Len(e.prefix)))

\* the history holds the empty result a fetch stored for this context
EmptyCached(history, logged, prefix, suffix) ==
    /\ InHistory(history, Suggestion(<<>>, prefix, suffix))
    /\ \E w \in logged : w.by = 0 /\ w.entry = Suggestion(<<>>, prefix, suffix)

\* a fetch that completes with empty text stores the empty suggestion
EmptyStored ==
    \A f \in Fetches :
        ( /\ fetches[f].state = "pending"
          /\ fetches'[f].state = "fulfilled"
          /\ fetches'[f].text = <<>> )
        => InHistory(suggestionsHistory',
                     Suggestion(<<>>, fetches[f].prefix, fetches[f].suffix))

\* C9 (as claimed) -- Cacheability of empty results: a fetch completing with
\* empty text stores the empty suggestion, and every later trigger with the
\* same context, while the entry is in the history, returns empty without
\* arming the timer and without a backend call.
C9_EmptyReturnsEmpty ==
    [][ /\ EmptyStored
        /\ Len(trig') = Len(trig) + 1
           => LET n == trig'[Len(trig')] IN
              EmptyCached(suggestionsHistory, writes, n.prefix, n.suffix)
              => /\ n.pc = "done"
                 /\ n.result = <<>>
                 /\ UNCHANGED <<debounceTimer, timers, fetches, pendingRequests>> ]_vars

\* C9 (amended) -- as claimed, except that the trigger returns empty only when
\* no more recent entry of the history matches its context: it always returns
\* at once, without arming the timer and without a backend call.
C9_EmptyIsCacheHit ==
    [][ /\ EmptyStored
        /\ Len(trig') = Len(trig) + 1
           => LET n == trig'[Len(trig')] IN
              EmptyCached(suggestionsHistory, writes, n.prefix, n.suffix)
              => /\ n.pc = "done"
                 /\ UNCHANGED <<debounceTimer, timers, fetches, pendingRequests>>
                 /\ \A i \in 1..Len(suggestionsHistory) :
                       ( /\ suggestionsHistory[i] = Suggestion(<<>>, n.prefix, n.suffix)
                         /\ \A j \in (i + 1)..Len(suggestionsHistory) :
                               ~Hits(suggestionsHistory[j], n.prefix, n.suffix) )
                       => n.result = <<>> ]_vars

\* a trigger answered from the cached empty result of a fetch for its context
C9_Witness ==
    \E t \in Triggers :
        /\ trig[t].pc = "done"
        /\ trig[t].own = 0 /\ trig[t].reused = 0
        /\ trig[t].result = <<>>
        /\ EmptyCached(suggestionsHistory, writes, trig[t].prefix, trig[t].suffix)
        /\ \E f \in Fetches : /\ fetches[f].state = "fulfilled"
                              /\ fetches[f].text = <<>>
                              /\ SameContext(fetches[f], trig[t])

LastOf(seq, n) == IF Len(seq) <= n THEN seq ELSE SubSeq(seq, Len(seq) - n + 1, Len(seq))

NoDuplicates(history) ==
    \A i, j \in 1..Len(history) : history[i] = history[j] => i = j

\* C10 -- History bound: after any sequence of updateSuggestions calls the
\* history holds at most 20 entries, no two of them the same; an insertion into
\* a full history drops exactly the oldest entry and keeps the others in order
\* before the new one; so the history is the last 20 of the suggestions
\* appended (25 distinct ones leave the last 20).
C10_HistoryBound ==
    [][ /\ Len(suggestionsHistory') <= MAX_SUGGESTIONS_HISTORY
        /\ NoDuplicates(suggestionsHistory')
        /\ ( /\ Len(suggestionsHistory) = MAX_SUGGESTIONS_HISTORY
             /\ suggestionsHistory' # suggestionsHistory )
           => /\ Len(suggestionsHistory') = MAX_SUGGESTIONS_HISTORY
              /\ \A i \in 1..(MAX_SUGGESTIONS_HISTORY - 1) :
                    suggestionsHistory'[i] = suggestionsHistory[i + 1]
              /\ ~InHistory(suggestionsHistory,
                            suggestionsHistory'[MAX_SUGGESTIONS_HISTORY])
        /\ suggestionsHistory' = LastOf(inserted', MAX_SUGGESTIONS_HISTORY) ]_vars

\* 25 distinct suggestions were inserted and the history holds the last 20
C10_Witness ==
    /\ Len(inserted) = MaxInserts
    /\ NoDuplicates(inserted)
    /\ Len(suggestionsHistory) = MAX_SUGGESTIONS_HISTORY
    /\ suggestionsHistory = LastOf(inserted, MAX_SUGGESTIONS_HISTORY)

\* the entry answers the query: the same prefix and suffix, or a non-empty text,
\* the same suffix, and the query prefix is the entry's prefix followed by a
\* start of the text
EntryHits(e, prefix, suffix) ==
    \/ e.prefix = prefix /\ e.suffix = suffix
    \/ /\ e.text # <<>>
       /\ e.suffix = suffix
       /\ \E n \in 0..Len(e.text) : prefix = e.prefix \o SubSeq(e.text, 1, n)

\* what a hitting entry answers: its text, without what the query prefix has
\* beyond the entry's prefix unless prefix and suffix are the same
EntryAnswer(e, prefix, suffix) ==
    IF e.prefix = prefix /\ e.suffix = suffix THEN e.text
    ELSE SubSeq(e.text, Len(prefix) - Len(e.prefix) + 1, Len(e.text))

\* the reference matcher: the answer of the most recent entry that hits, null
\* when none does
ReferenceMatcher(prefix, suffix, history) ==
    LET hits == {i \in 1..Len(history) : EntryHits(history[i], prefix, suffix)} IN
    IF hits = {} THEN Null
    ELSE LET last == CHOOSE i \in hits : \A j \in hits : j <= i IN
         Some(EntryAnswer(history[last], prefix, suffix))

\* C11 -- findMatchingSuggestion equals the reference matcher for every input:
\* it returns the answer of the most recent entry that hits (the text for the
\* same prefix and suffix, else for a non-empty text with the same suffix whose
\* prefix the query extends by a start of the text, the rest of the text), null
\* when no entry hits, and the history is the same after the call.
C11_MatcherIsReference ==
    [][ Len(matched') > Len(matched)
        => LET m == matched'[Len(matched')] IN
           /\ m.result = ReferenceMatcher(m.prefix, m.suffix, suggestionsHistory)
           /\ suggestionsHistory' = suggestionsHistory ]_vars

\* a call answered by a typed-ahead hit on the most recent entry although an
\* older entry has the same prefix and suffix, and a call answered with null
\* on a history that is not empty
C11_Witness ==
    /\ Len(matched) = 2
    /\ Len(suggestionsHistory) = 3
    /\ \E k \in 1..2 :
          /\ matched[k].result = Some(<<"f">>)
          /\ matched[k].prefix = <<"f", "u">>
          /\ suggestionsHistory[3].prefix = <<"f">>
          /\ suggestionsHistory[3].text = <<"u", "f">>
          /\ \E i \in 1..2 : /\ suggestionsHistory[i].prefix = matched[k].prefix
                             /\ suggestionsHistory[i].suffix = matched[k].suffix
                             /\ suggestionsHistory[i].text = <<>>
    /\ \E k \in 1..2 : matched[k].result = Null

\* C12 -- Cache-hit frame: a trigger issued on a history in which an entry hits
\* its context returns at once with the answer of the most recent such entry;
\* the step leaves the debounce timer, the registry, the history and every
\* request as they are, and a trigger that has returned is never the one a
\* timer fires for or a backend call is made for.
C12_CacheHitFrame ==
    [][ /\ Len(trig') = Len(trig) + 1
           => LET n == trig'[Len(trig')]
                  hit == ReferenceMatcher(n.prefix, n.suffix, suggestionsHistory)
              IN  hit.found
                  => /\ n.pc = "done"
                     /\ n.result = stringToInlineCompletions(hit.text)
                     /\ n.own = 0 /\ n.reused = 0
                     /\ UNCHANGED <<debounceTimer, timers, pendingRequests, fetches,
                                    suggestionsHistory, microQ>>
        /\ \A t \in Triggers : trig[t].pc = "done" => trig'[t] = trig[t]
        /\ \A t \in Triggers :
              (trig[t].pc = "done" /\ trig[t].own = 0 /\ trig[t].reused = 0)
              => /\ t \notin timers' /\ debounceTimer' # t
                 /\ \A f \in 1..Len(fetches') : fetches'[f].owner # t ]_vars

\* a trigger answered from the history with a text while another trigger's
\* request is registered
C12_Witness ==
    \E t \in Triggers :
        /\ trig[t].pc = "done"
        /\ trig[t].own = 0 /\ trig[t].reused = 0
        /\ trig[t].result # <<>>
        /\ t = Len(trig)
        /\ pendingRequests # <<>>
        /\ \E f \in Fetches : InFlight(f)

\* getFromLLM rejected the request with an error that is not a cancellation
AdapterFailed(fs, f) == fs[f].state = "rejected" /\ fs[f].error = "Error"

\* what a trigger returns when it resumes on the history
MatcherOrEmpty(prefix, suffix, history) ==
    LET m == ReferenceMatcher(prefix, suffix, history) IN
    stringToInlineCompletions(IF m.found THEN m.text ELSE <<>>)

\* C13 -- A failure of the backend call that is not a cancellation does not
\* reach the trigger caller: the step in which the call fails leaves the
\* history as it is and nothing is ever stored for that request; once the
\* trigger that created the request has gone on, a console.error event for it
\* is recorded, and a trigger that waited on the request records a
\* console.warn; the creating trigger completes as soon as the continuations
\* have run, with what the matcher finds in the history, or empty.
C13_FailureContained ==
    [][ \A f \in 1..Len(fetches') :
           AdapterFailed(fetches', f)
           => LET t == fetches'[f].owner IN
              /\ (f \in Fetches /\ fetches[f].state = "pending")
                 => /\ suggestionsHistory' = suggestionsHistory
                    /\ writes' = writes
              /\ \A w \in writes' : w.fetch # f
              /\ trig'[t].pc \in {"resuming", "done"}
                 => [level |-> "error", t |-> t, fetch |-> f] \in console'
              /\ \A u \in 1..Len(trig') :
                    (trig'[u].reused = f /\ trig'[u].pc # "reusing")
                    => [level |-> "warn", t |-> u, fetch |-> f] \in console'
              /\ microQ' = <<>> => trig'[t].pc = "done"
              /\ (trig[t].pc # "done" /\ trig'[t].pc = "done")
                 => trig'[t].result =
                       MatcherOrEmpty(trig[t].prefix, trig[t].suffix, suggestionsHistory')
       ]_vars

\* a trigger whose backend call failed has returned a text found in the
\* history, and another whose call failed has returned empty
C13_Witness ==
    /\ \E t \in Triggers :
          /\ trig[t].own # 0
          /\ AdapterFailed(fetches, trig[t].own)
          /\ ~fetches[trig[t].own].aborted
          /\ trig[t].pc = "done"
          /\ trig[t].result # <<>>
          /\ [level |-> "error", t |-> t, fetch |-> trig[t].own] \in console
    /\ \E t \in Triggers :
          /\ trig[t].own # 0
          /\ AdapterFailed(fetches, trig[t].own)
          /\ trig[t].pc = "done"
          /\ trig[t].result = <<>>

\* the request ended because its cancellation had been signalled: its async
\* function threw after getFromLLM returned
EndedByCancellation(f) ==
    /\ fetches[f].aborted
    /\ fetches[f].state = "rejected"
    /\ fetches[f].error = AbortedAfterCompletionError

\* C14 -- A cancellation failure is swallowed: for a request that ended because
\* its cancellation was signalled (by the invalidation loop or by dispose), no
\* console.error and no console.warn event is recorded, neither by the trigger
\* that created it nor by a trigger that waited on it.
C14_CancellationSilent ==
    \A e \in console : ~EndedByCancellation(e.fetch)

\* C15 -- Every trigger call eventually resolves, given that armed timers fire
\* and backend calls settle: once no timer is armed, no prompt is being built,
\* no backend call is outstanding and no continuation is left to run, every
\* trigger has returned -- one whose timer was cleared by a later trigger or by
\* dispose included.  (Each step uses up a trigger, a timer, a backend call, a
\* continuation or a dispose, so under those assumptions every behaviour comes
\* to such a state.)
C15_EveryCallResolves ==
    Quiescent => \A t \in Triggers : trig[t].pc = "done"

\* the step is a scheduling call of trigger t: debouncedFetchAndCacheSuggestion
Scheduled(t) == trig[t].pc = "prompt" /\ trig'[t].pc = "debounce"

C17_LatestContextAtFire ==
    [][ \A t \in Triggers :
           Fired(t) => \A u \in Triggers :
                          (u > t /\ Missed(u) /\ trig[u].pc # "prompt")
                          => SameContext(trig[t], trig[u]) ]_vars

RegisteredIn(pend, f) == \E k \in 1..Len(pend) : pend[k].id = f

\* C18 -- A request is removed from the registry when it settles: a request
\* that fetchAndCacheSuggestion created is registered under its key by the step
\* that created it; the step in which its backend call settles (with a result,
\* a failure or a cancellation) leaves it out of the registry while the trigger
\* awaiting it has not gone on; and the registry never holds a settled request.
C18_RemovedWhenSettled ==
    [][ /\ Len(fetches') > Len(fetches)
           => LET n == fetches'[Len(fetches')] IN
              MapGet(pendingRequests', getCacheKey(n.prefix, n.suffix)) = Len(fetches')
        /\ \A f \in Fetches :
              (fetches[f].state = "pending" /\ fetches'[f].state # "pending")
              => /\ ~RegisteredIn(pendingRequests', f)
                 /\ trig'[fetches[f].owner] = trig[fetches[f].owner]
                 /\ trig[fetches[f].owner].pc = "fetching"
        /\ \A f \in 1..Len(fetches') :
              RegisteredIn(pendingRequests', f) => fetches'[f].state = "pending" ]_vars

\* requests that settled with a result, with a failure and after a cancellation
\* are out of the registry, which holds another one
C18_Witness ==
    /\ \E f \in Fetches : fetches[f].state = "fulfilled" /\ ~Registered(f)
    /\ \E f \in Fetches : /\ fetches[f].state = "rejected"
                          /\ ~fetches[f].aborted
                          /\ ~Registered(f)
    /\ \E f \in Fetches : Registered(f) /\ fetches[f].state = "pending"

\* the call was made with auto-triggering disabled in the settings it read, or
\* the provider has no model
Refused(c) == c.settings # "true" \/ ~model

\* C19 -- Disabled or no model: a provideInlineCompletionItems call made with
\* auto-triggering disabled in the settings read at the call (null settings,
\* enableAutoTrigger missing or false), or on a provider without a model,
\* returns empty in the step of the call, which arms or clears no timer, makes
\* no backend call and leaves the history, the registry and the console as
\* they are; and nothing happens for that call later.
C19_DisabledNoEffect ==
    [][ /\ Len(trig') = Len(trig) + 1
           => ( Refused(calls'[Len(calls')])
                => /\ trig'[Len(trig')].pc = "done"
                   /\ trig'[Len(trig')].result = <<>>
                   /\ UNCHANGED <<debounceTimer, timers, pendingRequests, fetches,
                                  suggestionsHistory, microQ, console, writes>> )
        /\ \A t \in Triggers :
              Refused(calls[t])
              => /\ trig'[t] = trig[t]
                 /\ calls'[t] = calls[t]
                 /\ t \notin timers' /\ debounceTimer' # t
                 /\ \A f \in 1..Len(fetches') : fetches'[f].owner # t ]_vars

\* a call with auto-triggering disabled has returned empty although the history
\* holds a text for its context and another call's request is in flight
C19_Witness ==
    \E t \in Triggers :
        /\ calls[t].settings \in {"null", "unset", "false"}
        /\ calls[t].gate = "disabled"
        /\ trig[t].pc = "done"
        /\ trig[t].result = <<>>
        /\ suggestionsHistory # <<>>
        /\ LET m == ReferenceMatcher(trig[t].prefix, trig[t].suffix, suggestionsHistory) IN
           m.found /\ m.text # <<>>

\* the call is subject to the access check: enabled, with a model, for a titled
\* document, on a provider with an ignore controller
Checked(c) ==
    /\ c.settings = "true"
    /\ model
    /\ c.doc # "untitled"
    /\ ignoreController # "none"

\* C20 -- Access control fails closed: a call for a titled document on a
\* provider with an ignore controller goes on to the history, to a timer or to
\* a backend call, and returns a suggestion, only when the controller promise is
\* resolved and validateAccess returned true; when the controller denies,
\* validateAccess throws, the promise is rejected or the bounded wait ends
\* first, the call returns empty in that step, which leaves the debounce timer,
\* the registry, the requests and the history as they are.
C20_AccessFailsClosed ==
    [][ \A t \in 1..Len(trig') :
           Checked(calls'[t])
           => /\ ( \/ trig'[t].result # <<>>
                   \/ trig'[t].pc \notin {"access", "done"}
                   \/ t \in timers'
                   \/ \E f \in 1..Len(fetches') : fetches'[f].owner = t )
                 => /\ calls'[t].doc = "allowed"
                    /\ ignoreController' = "resolved"
              /\ ( /\ t \notin Triggers \/ trig[t].pc = "access"
                   /\ trig'[t].pc # "access"
                   /\ calls'[t].doc # "allowed" \/ ignoreController' # "resolved" )
                 => /\ trig'[t].pc = "done"
                    /\ trig'[t].result = <<>>
                    /\ UNCHANGED <<debounceTimer, timers, pendingRequests, fetches,
                                   suggestionsHistory, microQ, writes>> ]_vars

\* one call was let through by validateAccess and returned a suggestion; a
\* later call for a document the controller denies returned empty although the
\* history holds a text for its context
C20_Witness ==
    /\ Len(trig) = 2
    /\ ignoreController = "resolved"
    /\ Checked(calls[1]) /\ Checked(calls[2])
    /\ calls[1].gate = "allowed"
    /\ trig[1].pc = "done" /\ trig[1].result # <<>>
    /\ calls[2].gate = "denied"
    /\ trig[2].pc = "done" /\ trig[2].result = <<>>
    /\ LET m == ReferenceMatcher(trig[2].prefix, trig[2].suffix, suggestionsHistory) IN
       m.found /\ m.text # <<>>


\* ------------------------------------------------------------ costs
\* the provider as in Spec, with a model that reports a cost for each response
MaxCostTriggers == 2
Costs == {0, 1}

NextCost ==
    \/ \E c \in Contexts : Len(trig) < MaxCostTriggers /\ Trigger(c[1], c[2])
    \/ \E t \in 1..MaxCostTriggers : PromptReady(t)
    \/ \E t \in 1..MaxCostTriggers : TimerFire(t)
    \/ \E f \in 1..MaxCostTriggers, text \in Texts, cost \in Costs : LLMResult(f, text, cost)
    \/ \E f \in 1..MaxCostTriggers, name \in ErrorNames : LLMFail(f, name)
    \/ Dispose
    \/ RunMicrotask

SpecCost == Init /\ [][NextCost]_vars

CostCallsOf(f) == {i \in 1..Len(costCalls) : costCalls[i].fetch = f}

\* C21: every call of the cost callback is for a request whose adapter call
\* returned, that was not cancelled, and whose cost is above zero; no request is
\* reported twice, so a trigger reusing a request reports nothing again and a
\* cancelled request reports nothing
C21_CostOnlyOnce ==
    /\ \A i \in 1..Len(costCalls) :
          /\ costCalls[i].cost > 0
          /\ costCalls[i].fetch \in Fetches
          /\ fetches[costCalls[i].fetch].state = "fulfilled"
          /\ ~fetches[costCalls[i].fetch].aborted
    /\ \A f \in Fetches : Cardinality(CostCallsOf(f)) <= 1
    /\ \A f \in Fetches : fetches[f].aborted => CostCallsOf(f) = {}

\* a trigger reused a request that reported its cost, and is done: one call only
C21_Witness ==
    \E t \in Triggers :
       /\ trig[t].pc = "done"
       /\ trig[t].reused # 0
       /\ fetches[trig[t].reused].state = "fulfilled"
       /\ costCalls = <<[fetch |-> trig[t].reused, cost |-> 1]>>


\* C22: a trigger whose reused request was cancelled while it waited goes on, when
\* the request settles, without changing the history and without starting a request
C22_CancelledReuseStops ==
    [][\A t \in Triggers :
          (/\ trig[t].pc = "reusing"
           /\ fetches[trig[t].reused].aborted
           /\ trig'[t].pc # "reusing")
          => /\ suggestionsHistory' = suggestionsHistory
             /\ Len(fetches') = Len(fetches)]_vars


\* the context of the request a step starts makes request r obsolete, in the
\* words of the invalidation rule
Diverged(r, new) ==
    \/ r.suffix # new.suffix
    \/ (~StartsWith(new.prefix, r.prefix) /\ ~StartsWith(r.prefix, new.prefix))

MaxReuseLookups == 1

ReusePrefixes == {<<"a">>, <<"a", "b">>, <<"a", "b", "d">>, <<"a", "|">>}
ReuseSuffixes == {<<"c">>, <<"|", "c">>}

Injections(n, S) == {s \in [1..n -> S] : \A i, j \in 1..n : s[i] = s[j] => i = j}

\* the prefixes of requests that can be registered together: the invalidation
\* loop leaves no two registered requests with prefixes that diverge
PrefixChains == {S \in SUBSET ReusePrefixes : \A p, q \in S : ~Diverge(p, q)}

\* a registry the provider can hold: pending requests that are not aborted, with
\* one suffix and prefixes in a chain, each under its own key. The ids are in
\* the order the requests were created; the order of the Map is the order in
\* which the keys were first set, and a key that is set again keeps its place
\* (lines 730-735), so the two orders need not agree
InitReuse ==
    /\ \E suffix \in ReuseSuffixes, S \in PrefixChains :
       \E created \in Injections(Cardinality(S), S),
          order \in Injections(Cardinality(S), 1..Cardinality(S)) :
          /\ fetches = [i \in 1..Cardinality(S) |-> NewPending(i, created[i], suffix)]
          /\ pendingRequests = [k \in 1..Cardinality(S) |->
                                  [key |-> getCacheKey(created[order[k]], suffix),
                                   id |-> order[k]]]
    /\ suggestionsHistory = <<>>
    /\ debounceTimer = 0
    /\ timers = {}
    /\ trig = <<>>
    /\ microQ = <<>>
    /\ console = {}
    /\ writes = {}
    /\ disposeCount = 0
    /\ inserted = <<>>
    /\ matched = <<>>
    /\ model = TRUE
    /\ ignoreController = "none"
    /\ calls = <<>>
    /\ costCalls = <<>>
    /\ reuseLookups = <<>>
    /\ WebInit

\* findReusablePendingRequest called with the registry as it is
CallFindReusablePendingRequest(prefix, suffix) ==
    /\ Len(reuseLookups) < MaxReuseLookups
    /\ reuseLookups' = Append(reuseLookups,
                         [prefix |-> prefix, suffix |-> suffix,
                          result |-> findReusablePendingRequest(pendingRequests, fetches,
                                                                prefix, suffix)])
    /\ UNCHANGED <<suggestionsHistory, debounceTimer, timers, pendingRequests, fetches,
                   trig, microQ, console, writes, disposeCount, inserted, matched,
                   entryVars, costCalls, webVars>>

NextReuse ==
    \E prefix \in ReusePrefixes, suffix \in ReuseSuffixes :
       CallFindReusablePendingRequest(prefix, suffix)

SpecReuse == InitReuse /\ [][NextReuse]_vars

\* registered request f can serve a lookup: same suffix, and its prefix is the
\* looked-up prefix or a prefix of it
Qualifies(f, lookup) ==
    /\ RegisteredIn(pendingRequests, f)
    /\ fetches[f].suffix = lookup.suffix
    /\ StartsWith(lookup.prefix, fetches[f].prefix)

\* C24: the reuse search returns a registered request only if it qualifies,
\* returns none only if no registered request qualifies, and returns the request
\* with exactly the looked-up context when there is one
C24_ReuseSearchSound ==
    \A i \in 1..Len(reuseLookups) :
       LET l == reuseLookups[i] IN
       /\ l.result # 0 => Qualifies(l.result, l)
       /\ l.result = 0 => ~\E f \in Fetches : Qualifies(f, l)
       /\ \A f \in Fetches :
             (RegisteredIn(pendingRequests, f) /\ SameContext(fetches[f], l))
             => l.result = f

\* C25: when no registered request has exactly the looked-up context and several
\* qualify, the search returns the one that was registered earliest
C25_EarliestRegistered ==
    \A i \in 1..Len(reuseLookups) :
       LET l == reuseLookups[i] IN
       (/\ ~\E f \in Fetches : RegisteredIn(pendingRequests, f) /\ SameContext(fetches[f], l)
        /\ \E f \in Fetches : Qualifies(f, l))
       => /\ Qualifies(l.result, l)
          /\ \A f \in Fetches : Qualifies(f, l) => l.result <= f


\* ------------------------------------------------------------ typing ahead twice
\* the provider as in Spec, with three contexts each typed ahead of the one
\* before, and a backend whose texts continue some of them
ChainContexts == {<< <<"f">>, <<>> >>, << <<"f", "u">>, <<>> >>, << <<"f", "u", "f">>, <<>> >>}
ChainTexts == {<<"u">>, <<"u", "f", "u">>}

NextChain ==
    \/ \E c \in ChainContexts : Trigger(c[1], c[2])
    \/ \E t \in 1..MaxTriggers : PromptReady(t)
    \/ \E t \in 1..MaxTriggers : TimerFire(t)
    \/ \E f \in 1..MaxTriggers, text \in ChainTexts : LLMReturn(f, text)
    \/ \E f \in 1..MaxTriggers, name \in ErrorNames : LLMFail(f, name)
    \/ Dispose
    \/ RunMicrotask

SpecChain == Init /\ [][NextChain]_vars

\* the trigger waited on a fetch issued for a proper prefix of its prefix, and
\* the fetched text does not start with what was typed since
InconsistentCase(t) ==
    /\ trig[t].reused # 0
    /\ trig[t].own = 0
    /\ fetches[trig[t].reused].state = "fulfilled"
    /\ fetches[trig[t].reused].suffix = trig[t].suffix
    /\ ProperPrefix(fetches[trig[t].reused].prefix, trig[t].prefix)
    /\ ~StartsWith(fetches[trig[t].reused].text, Typed(t))

\* the result of the reused fetch as the fetch itself stores it
Original(t) ==
    LET r == fetches[trig[t].reused] IN Suggestion(r.text, r.prefix, r.suffix)

\* C26 (as claimed): in the inconsistent case the step that ends the trigger's
\* wait leaves the unadjusted result in the history under the reused fetch's own
\* prefix and suffix and adds nothing else, and the trigger returns empty
C26_InconsistentReturnsEmpty ==
    [][ \A t \in Triggers :
           InconsistentCase(t) =>
             /\ (trig[t].pc = "reusing" /\ trig'[t].pc # "reusing")
                => /\ InHistory(suggestionsHistory', Original(t))
                   /\ suggestionsHistory' \in {suggestionsHistory,
                                               Append(suggestionsHistory, Original(t))}
             /\ (trig[t].pc # "done" /\ trig'[t].pc = "done")
                => trig'[t].result = <<>> ]_vars

\* C26 (amended): the same for the history; the trigger returns what the matcher
\* finds in the history, which is empty unless an entry other than the unadjusted
\* result answers its context
C26_InconsistentStoresOriginal ==
    [][ \A t \in Triggers :
           InconsistentCase(t) =>
             /\ (trig[t].pc = "reusing" /\ trig'[t].pc # "reusing")
                => /\ InHistory(suggestionsHistory', Original(t))
                   /\ suggestionsHistory' \in {suggestionsHistory,
                                               Append(suggestionsHistory, Original(t))}
             /\ (trig[t].pc # "done" /\ trig'[t].pc = "done")
                => /\ trig'[t].result =
                        MatcherOrEmpty(trig[t].prefix, trig[t].suffix, suggestionsHistory)
                   /\ ~EntryHits(Original(t), trig[t].prefix, trig[t].suffix)
                   /\ trig'[t].result # <<>>
                      => \E i \in 1..Len(suggestionsHistory) :
                            /\ suggestionsHistory[i] # Original(t)
                            /\ EntryHits(suggestionsHistory[i], trig[t].prefix,
                                         trig[t].suffix) ]_vars

\* a trigger for "fuf" waited on the fetch for "fu", which returned "u"; the
\* history holds that result under "fu" only, and the trigger returned empty
C26_Witness ==
    \E t \in Triggers :
       /\ InconsistentCase(t)
       /\ trig[t].pc = "done"
       /\ trig[t].prefix = <<"f", "u", "f">>
       /\ fetches[trig[t].reused].prefix = <<"f", "u">>
       /\ trig[t].result = <<>>
       /\ suggestionsHistory = <<Suggestion(<<"u">>, <<"f", "u">>, <<>>)>>


\* C27: at most one debounce timer is armed in every reachable state: the
\* debounceTimer field holds no handle exactly when no timer is armed, and else the
\* one armed timer, which is that of a trigger whose task has not been invoked
C27_OneTimer ==
    /\ Cardinality(timers) <= 1
    /\ (debounceTimer = 0) <=> (timers = {})
    /\ debounceTimer # 0
       => /\ timers = {debounceTimer}
          /\ debounceTimer \in Triggers
          /\ trig[debounceTimer].pc = "debounce"

\* two scheduling calls: the second cancelled the timer of the first and armed
\* its own
C27_Witness ==
    /\ Len(trig) >= 2
    /\ trig[1].pc = "debounce"
    /\ trig[2].pc = "debounce"
    /\ timers = {2}
    /\ debounceTimer = 2


\* the request of trigger t, or the one it waited on, has settled
Settled(f) == fetches[f].state # "pending"

\* C28: a timer that fires invokes the task of its trigger and leaves the
\* trigger's promise unresolved; the promise is resolved only by the task
\* finishing, after the request the task awaited has settled; so when the trigger
\* looks the history up again, every request its task started or waited on has
\* settled, and the result of each that completed is in the history
C28_ResolvedAfterTask ==
    [][ \A t \in Triggers :
           /\ Fired(t) => /\ t \in timers
                          /\ trig'[t].pc \in {"fetching", "reusing"}
           /\ (trig[t].pc # "resuming" /\ trig'[t].pc = "resuming")
              => \/ trig[t].pc = "fetching" /\ Settled(trig[t].own)
                 \/ trig[t].pc = "reusing" /\ Settled(trig[t].reused)
           /\ (trig[t].pc # "done" /\ trig'[t].pc = "done")
              => /\ trig[t].pc = "resuming"
                 /\ trig[t].own # 0 \/ trig[t].reused # 0
                 /\ \A f \in {trig[t].own, trig[t].reused} \ {0} :
                       /\ Settled(f)
                       /\ fetches[f].state = "fulfilled"
                          => InHistory(suggestionsHistory,
                                       Suggestion(fetches[f].text, fetches[f].prefix,
                                                  fetches[f].suffix))
                 /\ trig'[t].result =
                       MatcherOrEmpty(trig[t].prefix, trig[t].suffix, suggestionsHistory)
    ]_vars

\* a trigger whose own request returned "f" looked the history up afterwards and
\* returned it
C28_Witness ==
    /\ Len(trig) >= 1
    /\ trig[1].pc = "done"
    /\ trig[1].own = 1
    /\ fetches[1].state = "fulfilled"
    /\ fetches[1].text = <<"f">>
    /\ trig[1].result = <<[insertText |-> <<"f">>]>>


\* C29: dispose() leaves no timer armed and invokes no task; a trigger whose
\* task was scheduled and whose timer is no longer armed stays as it is for
\* ever, owns no request and stores nothing
C29_DisposeCancelsTimer ==
    [][ /\ disposeCount' # disposeCount
           => /\ timers' = {}
              /\ debounceTimer' = 0
              /\ trig' = trig
              /\ suggestionsHistory' = suggestionsHistory
              /\ Len(fetches') = Len(fetches)
        /\ \A t \in Triggers :
              (trig[t].pc = "debounce" /\ t \notin timers)
              => /\ trig'[t] = trig[t]
                 /\ \A f \in 1..Len(fetches') : fetches'[f].owner # t
                 /\ \A w \in writes' : w.by # t ]_vars

\* the only trigger was waiting for its timer when dispose() was called; nothing
\* is left to run and no request was ever made
C29_Witness ==
    /\ disposeCount >= 1
    /\ Len(trig) = 1
    /\ trig[1].pc = "debounce"
    /\ timers = {}
    /\ microQ = <<>>
    /\ fetches = <<>>
    /\ suggestionsHistory = <<>>


\* ------------------------------------------------------------ a history near capacity
\* the provider as in Spec after enough requests have completed to leave 19
\* entries in the history: for prefix "fuf" with suffix "", and for the prefixes
\* "f", "fu" and "fuf" with suffix "z"
MaxFullTriggers == 3

InitFull ==
    /\ suggestionsHistory = SubSeq(HistoryPool, 12, 30)
    /\ debounceTimer = 0
    /\ timers = {}
    /\ pendingRequests = <<>>
    /\ fetches = <<>>
    /\ trig = <<>>
    /\ microQ = <<>>
    /\ console = {}
    /\ writes = {}
    /\ disposeCount = 0
    /\ inserted = <<>>
    /\ matched = <<>>
    /\ model = TRUE
    /\ ignoreController = "none"
    /\ calls = <<>>
    /\ costCalls = <<>>
    /\ reuseLookups = <<>>
    /\ WebInit

NextFull ==
    \/ \E c \in Contexts : Len(trig) < MaxFullTriggers /\ Trigger(c[1], c[2])
    \/ \E t \in 1..MaxFullTriggers : PromptReady(t)
    \/ \E t \in 1..MaxFullTriggers : TimerFire(t)
    \/ \E f \in 1..MaxFullTriggers, text \in Texts : LLMReturn(f, text)
    \/ \E f \in 1..MaxFullTriggers, name \in ErrorNames : LLMFail(f, name)
    \/ Dispose
    \/ RunMicrotask

SpecFull == InitFull /\ [][NextFull]_vars

\* the step completes request f: its adapter call returned and it was not
\* cancelled
Completes(f) == fetches[f].state = "pending" /\ fetches'[f].state = "fulfilled"

\* the step is the continuation of trigger t after the request it waited on
\* completed
ContinuesAfterCompletion(t) ==
    /\ trig[t].pc = "reusing"
    /\ trig'[t].pc = "resuming"
    /\ fetches[trig[t].reused].state = "fulfilled"

\* C30: every step leaves the history as it is, or appends one entry that was
\* not in it, dropping the oldest entry when the history was full; an entry is
\* appended only by the step that completes a request (its result) or by a
\* trigger going on after the request it waited on completed (for its context or
\* that request's); the completion of a request whose result is in the history
\* already leaves the history as it is
C30_AppendOnly ==
    [][ LET h == suggestionsHistory
            last == suggestionsHistory'[Len(suggestionsHistory')]
        IN  /\ \/ suggestionsHistory' = h
               \/ /\ suggestionsHistory' # <<>>
                  /\ ~InHistory(h, last)
                  /\ \/ Len(h) < MAX_SUGGESTIONS_HISTORY /\ suggestionsHistory' = Append(h, last)
                     \/ /\ Len(h) = MAX_SUGGESTIONS_HISTORY
                        /\ suggestionsHistory' = Append(Tail(h), last)
            /\ suggestionsHistory' # h
               => \/ \E f \in Fetches :
                        /\ Completes(f)
                        /\ last = Suggestion(fetches'[f].text, fetches[f].prefix,
                                             fetches[f].suffix)
                  \/ \E t \in Triggers :
                        /\ ContinuesAfterCompletion(t)
                        /\ \/ last.prefix = trig[t].prefix /\ last.suffix = trig[t].suffix
                           \/ SameContext(last, fetches[trig[t].reused])
            /\ \A f \in Fetches :
                  Completes(f)
                  => IF InHistory(h, Suggestion(fetches'[f].text, fetches[f].prefix,
                                                fetches[f].suffix))
                     THEN suggestionsHistory' = h
                     ELSE suggestionsHistory' # h ]_vars

\* the history was full when a request for prefix "f" completed with "u f": the
\* oldest entry was dropped and the result appended, the rest is as it was
C30_Witness ==
    /\ Len(suggestionsHistory) = MAX_SUGGESTIONS_HISTORY
    /\ SubSeq(suggestionsHistory, 1, 18) = SubSeq(HistoryPool, 13, 30)
    /\ suggestionsHistory[20] = Suggestion(<<"u", "f">>, <<"f">>, <<>>)
    /\ \E f \in Fetches : fetches[f].state = "fulfilled" /\ fetches[f].text = <<"u", "f">>


\* the request trigger t waits on has failed, and not by cancellation
ReusedFailed(t) ==
    /\ trig[t].pc = "reusing"
    /\ fetches[trig[t].reused].state = "rejected"
    /\ ~fetches[trig[t].reused].aborted
    /\ ~IsAbortError(fetches[trig[t].reused].error)

\* C31: the step in which a trigger goes on after the request it waited on failed
\* (not by cancellation) starts one request for the trigger's own context and
\* registers it under the trigger's key; every request that was registered,
\* pending and not cancelled before the step is registered after it
C31_FallThroughKeepsOthers ==
    [][ \A t \in Triggers :
           (ReusedFailed(t) /\ trig'[t].pc # "reusing")
           => /\ Len(fetches') = Len(fetches) + 1
              /\ fetches'[Len(fetches')].owner = t
              /\ SameContext(fetches'[Len(fetches')], trig[t])
              /\ MapGet(pendingRequests', getCacheKey(trig[t].prefix, trig[t].suffix))
                    = Len(fetches')
              /\ \A f \in Fetches :
                    (RegisteredIn(pendingRequests, f) /\ InFlight(f))
                    => RegisteredIn(pendingRequests', f) ]_vars


\* the step settles request f
Settles(f) == fetches[f].state = "pending" /\ fetches'[f].state # "pending"

\* C32: after every step each request whose adapter call is outstanding and whose
\* cancellation was not signalled is in the registry, and the step in which a
\* request settles removes no entry of another request
C32_RegistryComplete ==
    [][ /\ \A f \in 1..Len(fetches') :
              (fetches'[f].state = "pending" /\ ~fetches'[f].aborted)
              => RegisteredIn(pendingRequests', f)
        /\ \A f \in Fetches :
              Settles(f)
              => \A g \in Fetches \ {f} :
                    RegisteredIn(pendingRequests, g) => RegisteredIn(pendingRequests', g)
      ]_vars


\* the step signals the cancellation of request f
Cancels(f) == ~fetches[f].aborted /\ fetches'[f].aborted

\* C33: a request is cancelled by dispose() or by the fetchAndCacheSuggestion run
\* of a trigger issued after the trigger the request was created for, never by
\* the run of an older trigger
C33_OlderNeverCancelsNewer ==
    [][ \A f \in Fetches :
           (Cancels(f) /\ disposeCount' = disposeCount)
           => /\ Len(fetches') = Len(fetches) + 1
              /\ fetches'[Len(fetches')].owner > fetches[f].owner ]_vars


\* ------------------------------------------------------------ after dispose
\* the provider as in Spec when no trigger arrives after dispose() was called
NextDisposed ==
    \/ \E c \in Contexts : disposeCount = 0 /\ Trigger(c[1], c[2])
    \/ \E t \in 1..MaxTriggers : PromptReady(t)
    \/ \E t \in 1..MaxTriggers : TimerFire(t)
    \/ \E f \in 1..MaxTriggers, text \in Texts : LLMReturn(f, text)
    \/ \E f \in 1..MaxTriggers, name \in ErrorNames : LLMFail(f, name)
    \/ Dispose
    \/ RunMicrotask

SpecDisposed == Init /\ [][NextDisposed]_vars

\* C34: once dispose() has been called and while no new trigger arrives, no step
\* starts a request and the registry is empty
C34_NoCallAfterDispose ==
    [][ /\ disposeCount' >= 1 => pendingRequests' = <<>>
        /\ disposeCount >= 1 => Len(fetches') = Len(fetches) ]_vars


\* the context is the entry's prefix followed by the whole of its non-empty
\* text, with the entry's suffix
FullyTyped(e, prefix, suffix) ==
    /\ e.text # <<>>
    /\ e.suffix = suffix
    /\ prefix = e.prefix \o e.text

\* C35 (as claimed): a trigger whose prefix is a cached entry's prefix followed by
\* the entry's whole non-empty text (same suffix) is answered at once with no
\* completion items, arms no timer and starts no request
C35_FullyTypedReturnsEmpty ==
    [][ Len(trig') = Len(trig) + 1
        => LET n == trig'[Len(trig')] IN
           (\E i \in 1..Len(suggestionsHistory) :
               FullyTyped(suggestionsHistory[i], n.prefix, n.suffix))
           => /\ n.pc = "done"
              /\ n.result = <<>>
              /\ UNCHANGED <<debounceTimer, timers, fetches, pendingRequests>> ]_vars

\* C35 (amended): such a trigger is answered at once, arms no timer and starts no
\* request; it gets no completion items when no more recent entry of the history
\* answers its context
C35_FullyTypedIsCacheHit ==
    [][ Len(trig') = Len(trig) + 1
        => LET n == trig'[Len(trig')] IN
           (\E i \in 1..Len(suggestionsHistory) :
               FullyTyped(suggestionsHistory[i], n.prefix, n.suffix))
           => /\ n.pc = "done"
              /\ UNCHANGED <<debounceTimer, timers, fetches, pendingRequests>>
              /\ \A i \in 1..Len(suggestionsHistory) :
                    ( /\ FullyTyped(suggestionsHistory[i], n.prefix, n.suffix)
                      /\ \A j \in (i + 1)..Len(suggestionsHistory) :
                            ~Hits(suggestionsHistory[j], n.prefix, n.suffix) )
                    => n.result = <<>> ]_vars

\* the history holds the text "u" fetched for prefix "f" and nothing else; a
\* trigger for "fu" was answered from it with no items and made no request
C35_Witness ==
    /\ suggestionsHistory = <<Suggestion(<<"u">>, <<"f">>, <<>>)>>
    /\ Len(trig) = 2
    /\ trig[2].prefix = <<"f", "u">> /\ trig[2].suffix = <<>>
    /\ trig[2].pc = "done"
    /\ trig[2].own = 0 /\ trig[2].reused = 0
    /\ trig[2].result = <<>>
    /\ Len(fetches) = 1


\* C36: the key of a looked-up context is the key of a registered request only
\* when both have the same prefix and the same suffix, so the request the
\* exact-key lookup finds has the looked-up prefix and suffix
C36_KeyInjective ==
    \A i \in 1..Len(reuseLookups) :
       LET l == reuseLookups[i]
           exactMatch == MapGet(pendingRequests, getCacheKey(l.prefix, l.suffix))
       IN  /\ \A f \in Fetches :
                 getCacheKey(fetches[f].prefix, fetches[f].suffix)
                    = getCacheKey(l.prefix, l.suffix)
                 => SameContext(fetches[f], l)
           /\ exactMatch # 0 => SameContext(fetches[exactMatch], l)

\* ------------------------------------------------------------ ensureCliBuild
\* calls of ensureCliBuild the model makes
MaxEnsureCalls == 3

\* a call of ensureCliBuild that has not settled
Unsettled(c) == ensureCalls[c].pc \in {"stat", "checked", "awaiting"}

Running(b) == builders[b] = "running"

\* needsCliRebuild once both stats are in: dist older than src, or TRUE when
\* stat threw
needsCliRebuild(distSeen, statFailed) == statFailed \/ distSeen # "fresh"

\* `if (!cliBuildPromise)`: whether the call spawns a build
SlotEmpty(slot) == slot = 0

\* the body after `await needsCliRebuild(...)`: return, or fill the empty
\* slot with a new build, and return the promise in the slot
AfterCheck(c, needs) ==
    IF ~needs
    THEN /\ ensureCalls' = [ensureCalls EXCEPT ![c].pc = "returned", ![c].needs = FALSE]
         /\ UNCHANGED <<cliBuildPromise, builders>>
    ELSE LET spawn == SlotEmpty(cliBuildPromise)
             slot == IF spawn THEN Len(builders) + 1 ELSE cliBuildPromise
         IN  /\ builders' = IF spawn THEN Append(builders, "running") ELSE builders
             /\ cliBuildPromise' = slot
             /\ ensureCalls' = [ensureCalls EXCEPT ![c].pc = "awaiting", ![c].needs = TRUE,
                                                   ![c].build = slot, ![c].spawned = spawn,
                                                   ![c].distThen = cliDist]

\* a run request calls ensureCliBuild, which calls needsCliRebuild
EnsureCliBuild ==
    /\ Len(ensureCalls) < MaxEnsureCalls
    /\ ensureCalls' = Append(ensureCalls,
           [pc |-> "stat", needs |-> FALSE, seen |-> "missing", build |-> 0, spawned |-> FALSE,
            distThen |-> "missing",
            during |-> {c \in 1..Len(ensureCalls) : Unsettled(c)}])
    /\ UNCHANGED <<cliBuildPromise, builders, cliDist, providerVars, streamVars,
                   sessionVars, approvalVars>>

\* pathExists(cliEntry) answers: a missing dist returns true at once and the
\* call goes on in the same turn; else stat(cliEntry) samples the dist
StatDist(c) ==
    /\ c \in 1..Len(ensureCalls)
    /\ ensureCalls[c].pc = "stat"
    /\ IF cliDist = "missing"
       THEN AfterCheck(c, TRUE)
       ELSE /\ ensureCalls' = [ensureCalls EXCEPT ![c].pc = "checked", ![c].seen = cliDist]
            /\ UNCHANGED <<cliBuildPromise, builders>>
    /\ UNCHANGED <<cliDist, providerVars, streamVars, sessionVars, approvalVars>>

\* Promise.all([stat(cliEntry), stat(cliSrcDir)]) settles and the call goes on
\* with the dist it sampled
StatDone(c, statFailed) ==
    /\ c \in 1..Len(ensureCalls)
    /\ ensureCalls[c].pc = "checked"
    /\ AfterCheck(c, needsCliRebuild(ensureCalls[c].seen, statFailed))
    /\ UNCHANGED <<cliDist, providerVars, streamVars, sessionVars, approvalVars>>

\* the promise of build b settles: finally clears the slot, then the calls
\* awaiting it go on
BuildSettles(b, how) ==
    /\ cliBuildPromise' = 0
    /\ builders' = [builders EXCEPT ![b] = how]
    /\ ensureCalls' = [c \in 1..Len(ensureCalls) |->
           IF ensureCalls[c].pc = "awaiting" /\ ensureCalls[c].build = b
           THEN [ensureCalls[c] EXCEPT !.pc = IF how = "exit0" THEN "resolved" ELSE "rejected"]
           ELSE ensureCalls[c]]

\* the builder emits "exit" with a code
BuilderExit(b, code) ==
    /\ b \in 1..Len(builders)
    /\ Running(b)
    /\ BuildSettles(b, IF code = 0 THEN "exit0" ELSE "exit1")
    /\ cliDist' = IF code = 0 THEN "fresh" ELSE cliDist
    /\ UNCHANGED <<providerVars, streamVars, sessionVars, approvalVars>>

\* the builder emits "error" (pnpm could not be spawned)
BuilderError(b) ==
    /\ b \in 1..Len(builders)
    /\ Running(b)
    /\ BuildSettles(b, "error")
    /\ UNCHANGED <<cliDist, providerVars, streamVars, sessionVars, approvalVars>>

\* somebody edits cli/src: a fresh dist is stale again
TouchSource ==
    /\ cliDist = "fresh"
    /\ cliDist' = "stale"
    /\ UNCHANGED <<cliBuildPromise, builders, ensureCalls, providerVars, streamVars,
                   sessionVars, approvalVars>>

NextBuild ==
    \/ EnsureCliBuild
    \/ \E c \in 1..MaxEnsureCalls : StatDist(c)
    \/ \E c \in 1..MaxEnsureCalls, statFailed \in BOOLEAN : StatDone(c, statFailed)
    \/ \E b \in 1..MaxEnsureCalls, code \in {0, 1} : BuilderExit(b, code)
    \/ \E b \in 1..MaxEnsureCalls : BuilderError(b)
    \/ TouchSource

SpecBuild == Init /\ [][NextBuild]_vars

\* calls c and d overlapped in time
Concurrent(c, d) == c \in ensureCalls[d].during \/ d \in ensureCalls[c].during

\* the call found a rebuild needed and returned a build promise
AwaitedBuild(c) == ensureCalls[c].build # 0

OneBuildAtATime == Cardinality({b \in 1..Len(builders) : Running(b)}) <= 1

SlotHoldsRunningBuild ==
    /\ cliBuildPromise # 0 => cliBuildPromise \in 1..Len(builders) /\ Running(cliBuildPromise)
    /\ \A b \in 1..Len(builders) : Running(b) => cliBuildPromise = b

ConcurrentAwaitSame ==
    \A c, d \in 1..Len(ensureCalls) :
        Concurrent(c, d) /\ AwaitedBuild(c) /\ AwaitedBuild(d)
            => ensureCalls[c].build = ensureCalls[d].build

\* C37: ensureCliBuild is single-flight: at most one build process runs at a
\* time, run requests that overlap in time and need a rebuild all await the
\* same build, and the slot is empty exactly when no build is running, so
\* that a request after a settled build starts a new one.
C37_SingleFlight == OneBuildAtATime /\ ConcurrentAwaitSame /\ SlotHoldsRunningBuild

\* a call that sampled a stale dist spawns a build of a dist that is fresh by
\* then: the build it overlapped with has exited with code 0 in the meantime
RedundantBuild(d) ==
    /\ ensureCalls[d].spawned
    /\ ensureCalls[d].seen = "stale"
    /\ ensureCalls[d].distThen = "fresh"
    /\ \E c \in ensureCalls[d].during :
           /\ ensureCalls[c].spawned
           /\ ensureCalls[c].build < ensureCalls[d].build
           /\ builders[ensureCalls[c].build] = "exit0"

NoRedundantBuild == \A d \in 1..Len(ensureCalls) : ~RedundantBuild(d)

\* ------------------------------------------------------------ createStreamFromProcess
\* events the child process emits in a run of the model
MaxChildEvents == 4

\* controller.enqueue(chunk): the chunk is queued on a readable stream that
\* was not asked to close; otherwise the call throws a TypeError
ControllerEnqueue(ctl, kind) ==
    [ctl EXCEPT !.chunks = Append(@, [kind |-> kind, state |-> ctl.state]),
                !.errors = IF ctl.state = "readable" THEN @ ELSE @ + 1]

\* controller.close(): a readable stream closes at once when its queue is
\* empty and after the queue is read otherwise; on a stream that is closing,
\* closed or cancelled the call throws a TypeError
ControllerClose(ctl, queued) ==
    [ctl EXCEPT !.closeCalls = @ + 1,
                !.state = IF ctl.state = "readable"
                          THEN (IF queued THEN "closing" ELSE "closed")
                          ELSE @,
                !.errors = IF ctl.state = "readable" THEN @ ELSE @ + 1]

\* const enqueue = (chunk) => { if (closed) return; controller.enqueue(...) }
enqueue(flag, ctl, kind) == IF flag THEN ctl ELSE ControllerEnqueue(ctl, kind)

\* const close = () => { if (closed) return; closed = true; controller.close() }
close(flag, ctl, queued) == IF flag THEN ctl ELSE ControllerClose(ctl, queued)

\* the child emitted one more event; the handler returned at `if (closed)`
\* when the flag was set
Emitted(skips) == [child EXCEPT !.events = @ + 1, !.skipped = @ + skips]

\* child.stdout.on("data") and child.stderr.on("data")
ChildData(kind) ==
    /\ child.events < MaxChildEvents
    /\ streamController' = enqueue(closed, streamController, kind)
    /\ child' = Emitted(IF closed THEN 1 ELSE 0)
    /\ UNCHANGED <<closed, providerVars, buildVars, sessionVars, approvalVars>>

\* child.on("close") and child.on("error"): one last chunk, then close()
ChildEnds(kind, queued) ==
    /\ child.events < MaxChildEvents
    /\ streamController' = close(closed, enqueue(closed, streamController, kind), queued)
    /\ closed' = TRUE
    /\ child' = Emitted(IF closed THEN 1 ELSE 0)
    /\ UNCHANGED <<providerVars, buildVars, sessionVars, approvalVars>>

\* the consumer read the chunks queued before close(): the stream closes
Drained ==
    /\ streamController.state = "closing"
    /\ streamController' = [streamController EXCEPT !.state = "closed"]
    /\ UNCHANGED <<closed, child, providerVars, buildVars, sessionVars, approvalVars>>

\* faulty variant: cancel() kills the child and leaves the flag alone
CancelLeavesFlag ==
    /\ streamController.state \in {"readable", "closing"}
    /\ streamController' = [streamController EXCEPT !.state = "cancelled"]
    /\ child' = [child EXCEPT !.signals = Append(@, "SIGINT")]
    /\ UNCHANGED <<closed, providerVars, buildVars, sessionVars, approvalVars>>

\* the consumer cancels a stream that has not closed: the stream is closed,
\* then cancel() of the source runs: child.kill("SIGINT"); closed = true
Cancel ==
    /\ streamController.state \in {"readable", "closing"}
    /\ streamController' = [streamController EXCEPT !.state = "cancelled"]
    /\ child' = [child EXCEPT !.signals = Append(@, "SIGINT")]
    /\ closed' = TRUE
    /\ UNCHANGED <<providerVars, buildVars, sessionVars, approvalVars>>

NextStream ==
    \/ \E kind \in {"stdout", "stderr"} : ChildData(kind)
    \/ \E kind \in {"close", "error"}, queued \in BOOLEAN : ChildEnds(kind, queued)
    \/ Drained
    \/ Cancel

SpecStream == Init /\ [][NextStream]_vars

\* the stream is closed, about to close, or cancelled
Over == streamController.state # "readable"

\* C38: whatever the order of stdout data, stderr data, close, error and
\* cancel, every chunk was enqueued on a stream that was neither closed nor
\* cancelled, controller.close() was called at most once, and no call on the
\* controller threw.
C38_NoEnqueueAfterEnd ==
    /\ \A i \in 1..Len(streamController.chunks) : streamController.chunks[i].state = "readable"
    /\ streamController.closeCalls <= 1
    /\ streamController.errors = 0

\* the stream was cancelled, and the child's close event and a data event
\* arrived afterwards
C38_Witness ==
    /\ streamController.state = "cancelled"
    /\ child.signals # <<>>
    /\ child.skipped >= 2
    /\ streamController.chunks # <<>>

\* ------------------------------------------------------------ WebChatSession
\* calls of methods of the session the model makes
MaxSessionCalls == 4

\* events a service emits in a run of the model
MaxServiceEvents == 1

\* white space String.prototype.trim removes
WhiteSpace == {" ", "\t"}

RECURSIVE TrimStart(_)
TrimStart(s) == IF s # <<>> /\ Head(s) \in WhiteSpace THEN TrimStart(Tail(s)) ELSE s

RECURSIVE TrimEnd(_)
TrimEnd(s) ==
    IF s # <<>> /\ s[Len(s)] \in WhiteSpace THEN TrimEnd(SubSeq(s, 1, Len(s) - 1)) ELSE s

\* text.trim(), a text being a sequence of white space and words
Trim(s) == TrimEnd(TrimStart(s))

\* getAllModes(this.customModes) with no custom modes: the slugs
AllModes == <<"architect", "code", "ask">>

\* texts and modes the callers pass
MessageTexts == {<<>>, <<" ">>, <<"hi">>, <<" ", "hi", "\t">>}

ModeArgs == {<<>>, <<"\t">>, <<"code">>, <<" ", "ask", " ">>, <<"bogus">>}

Operations ==
    [op : {"sendUserMessage"}, arg : MessageTexts]
        \cup [op : {"respondToTool"}, arg : {<<"yes">>, <<"no">>}]
        \cup [op : {"cancelTask", "clearTask"}, arg : {<<>>}]
        \cup [op : {"setMode"}, arg : ModeArgs]

\* ensureService: throws when the service field is null
ensureService(svc) == svc # 0

\* getAvailableModes: fills the field when it is empty
getAvailableModes(modes) == IF Len(modes) = 0 THEN AllModes ELSE modes

\* this.hasActiveTask(): the model's states carry no chat messages
hasActiveTask == FALSE

\* the WebviewMessage a call sends when nothing is wrong with its argument
WebviewMessage(op, arg) ==
    CASE op = "sendUserMessage" ->
             [type |-> IF hasActiveTask THEN "askResponse" ELSE "newTask", text |-> Trim(arg)]
      [] op = "respondToTool" ->
             [type |-> "askResponse",
              text |-> IF arg = <<"yes">> THEN <<"yesButtonClicked">> ELSE <<"noButtonClicked">>]
      [] op = "setMode" -> [type |-> "mode", text |-> Trim(arg)]
      [] OTHER -> [type |-> op, text |-> <<>>]

\* the error a call throws before it reaches the service, or "none"
ArgumentError(op, arg, modes) ==
    CASE op = "sendUserMessage" /\ Trim(arg) = <<>> -> "Message text cannot be empty"
      [] op = "setMode" /\ Trim(arg) = <<>> -> "Mode is required"
      [] op = "setMode" /\ ~(\E i \in 1..Len(getAvailableModes(modes)) :
                                 <<getAvailableModes(modes)[i]>> = Trim(arg))
             -> "Mode is not available"
      [] OTHER -> "none"

SessionCall(op, arg, pc, error) ==
    [op |-> op, arg |-> arg, pc |-> pc, error |-> error, svc |-> service,
     started |-> isStarted,
     disposing |-> \E c \in 1..Len(sessionCalls) :
                       sessionCalls[c].op = "dispose" /\ sessionCalls[c].pc = "disposing"]

\* start() is called: returns at once on a started session, else loads the
\* custom modes and the configuration
Start ==
    /\ Len(sessionCalls) < MaxSessionCalls
    /\ sessionCalls' = Append(sessionCalls,
           SessionCall("start", <<>>, IF isStarted THEN "returned" ELSE "loading", "none"))
    /\ UNCHANGED <<service, services, isStarted, extensionState, availableModes, sent, emitted,
                   providerVars, buildVars, streamVars, approvalVars>>

\* start() goes on: availableModes is set, the service is created and its
\* events are registered; initialize() is awaited
StartCreate(c) ==
    /\ c \in 1..Len(sessionCalls)
    /\ sessionCalls[c].op = "start" /\ sessionCalls[c].pc = "loading"
    /\ availableModes' = AllModes
    /\ services' = Append(services, "initializing")
    /\ service' = Len(services) + 1
    /\ sessionCalls' = [sessionCalls EXCEPT ![c].pc = "initializing",
                                             ![c].svc = Len(services) + 1]
    /\ UNCHANGED <<isStarted, extensionState, sent, emitted,
                   providerVars, buildVars, streamVars, approvalVars>>

\* initialize() of the service created by call c settles. When it rejects,
\* start() rejects. When it resolves and the service is ready, start() reads
\* the state of this.service, emits it and sets isStarted; with the service
\* field null by then, reading the state throws.
StartInitialized(c, ok) ==
    /\ c \in 1..Len(sessionCalls)
    /\ sessionCalls[c].op = "start" /\ sessionCalls[c].pc = "initializing"
    /\ services' = [services EXCEPT ![sessionCalls[c].svc] =
                         IF @ = "initializing" THEN (IF ok THEN "ready" ELSE "failed") ELSE @]
    /\ IF ok /\ service # 0
       THEN /\ extensionState' = <<[mode |-> "code"]>>
            /\ emitted' = Append(emitted, [state |-> extensionState', by |-> "start"])
            /\ isStarted' = TRUE
            /\ sessionCalls' = [sessionCalls EXCEPT ![c].pc = "resolved"]
       ELSE /\ sessionCalls' = [sessionCalls EXCEPT ![c].pc = "rejected"]
            /\ UNCHANGED <<extensionState, emitted, isStarted>>
    /\ UNCHANGED <<service, availableModes, sent,
                   providerVars, buildVars, streamVars, approvalVars>>

\* a service emits "stateChange": the handler registered by start() stores
\* and emits the state, whatever became of the session since
ServiceStateChange(s, mode) ==
    /\ s \in 1..Len(services)
    /\ services[s] \in {"ready", "disposing"}
    /\ Cardinality({i \in 1..Len(emitted) : emitted[i].by = "service"}) < MaxServiceEvents
    /\ extensionState' = <<[mode |-> mode]>>
    /\ emitted' = Append(emitted, [state |-> extensionState', by |-> "service"])
    /\ UNCHANGED <<service, services, isStarted, availableModes, sessionCalls, sent,
                   providerVars, buildVars, streamVars, approvalVars>>

\* sendUserMessage, respondToTool, cancelTask, clearTask or setMode is called
\* and runs up to its await: it throws, or hands a message to the service
Operation(op, arg) ==
    /\ Len(sessionCalls) < MaxSessionCalls
    /\ LET error == ArgumentError(op, arg, availableModes)
           reached == op = "setMode" /\ Trim(arg) # <<>>
       IN  /\ availableModes' = IF reached THEN getAvailableModes(availableModes)
                                ELSE availableModes
           /\ IF error # "none"
              THEN /\ sessionCalls' = Append(sessionCalls, SessionCall(op, arg, "threw", error))
                   /\ sent' = sent
              ELSE IF ~ensureService(service)
              THEN /\ sessionCalls' = Append(sessionCalls,
                                             SessionCall(op, arg, "threw", "Web session not started"))
                   /\ sent' = sent
              ELSE /\ sessionCalls' = Append(sessionCalls, SessionCall(op, arg, "sending", "none"))
                   /\ sent' = Append(sent, [to |-> service, message |-> WebviewMessage(op, arg),
                                           condition |-> services[service]])
    /\ UNCHANGED <<service, services, isStarted, extensionState, emitted,
                   providerVars, buildVars, streamVars, approvalVars>>

\* sendWebviewMessage resolves: setMode stores the mode in the state it has
\* and emits it; the other calls return
Sent(c) ==
    /\ c \in 1..Len(sessionCalls)
    /\ sessionCalls[c].pc = "sending"
    /\ sessionCalls' = [sessionCalls EXCEPT ![c].pc = "resolved"]
    /\ IF sessionCalls[c].op = "setMode" /\ extensionState # <<>>
       THEN /\ extensionState' = <<[extensionState[1] EXCEPT !.mode = Trim(sessionCalls[c].arg)[1]]>>
            /\ emitted' = Append(emitted, [state |-> extensionState', by |-> "setMode"])
       ELSE UNCHANGED <<extensionState, emitted>>
    /\ UNCHANGED <<service, services, isStarted, availableModes, sent,
                   providerVars, buildVars, streamVars, approvalVars>>

\* dispose() is called: returns at once without a service, else awaits the
\* service's dispose()
SessionDispose ==
    /\ Len(sessionCalls) < MaxSessionCalls
    /\ IF service = 0
       THEN /\ sessionCalls' = Append(sessionCalls, SessionCall("dispose", <<>>, "returned", "none"))
            /\ UNCHANGED services
       ELSE /\ sessionCalls' = Append(sessionCalls, SessionCall("dispose", <<>>, "disposing", "none"))
            /\ services' = [services EXCEPT ![service] = "disposing"]
    /\ UNCHANGED <<service, isStarted, extensionState, availableModes, sent, emitted,
                   providerVars, buildVars, streamVars, approvalVars>>

\* the service's dispose() resolves: the fields are reset
SessionDisposed(c) ==
    /\ c \in 1..Len(sessionCalls)
    /\ sessionCalls[c].op = "dispose" /\ sessionCalls[c].pc = "disposing"
    /\ sessionCalls' = [sessionCalls EXCEPT ![c].pc = "resolved"]
    /\ services' = [services EXCEPT ![sessionCalls[c].svc] = "disposed"]
    /\ service' = 0
    /\ isStarted' = FALSE
    /\ UNCHANGED <<extensionState, availableModes, sent, emitted,
                   providerVars, buildVars, streamVars, approvalVars>>

NextSession ==
    \/ Start
    \/ \E c \in 1..MaxSessionCalls : StartCreate(c)
    \/ \E c \in 1..MaxSessionCalls, ok \in BOOLEAN : StartInitialized(c, ok)
    \/ \E s \in 1..MaxSessionCalls, mode \in {"ask"} : ServiceStateChange(s, mode)
    \/ \E o \in Operations : Operation(o.op, o.arg)
    \/ \E c \in 1..MaxSessionCalls : Sent(c)
    \/ SessionDispose
    \/ \E c \in 1..MaxSessionCalls : SessionDisposed(c)

SpecSession == Init /\ [][NextSession]_vars

\* the step is a call of one of the five operations
Called == Len(sessionCalls') = Len(sessionCalls) + 1
          /\ sessionCalls'[Len(sessionCalls')].op \notin {"start", "dispose"}

TheCall == sessionCalls'[Len(sessionCalls')]

\* the call threw and neither sent a message nor touched or emitted the state
Rejected ==
    /\ TheCall.pc = "threw"
    /\ sent' = sent
    /\ extensionState' = extensionState
    /\ emitted' = emitted
    /\ UNCHANGED <<service, services, isStarted>>

\* a blank text, an empty mode and a mode that is not available are rejected
InvalidArgumentRejected ==
    [][Called /\ ArgumentError(TheCall.op, TheCall.arg, availableModes) # "none" => Rejected]_vars

\* every operation on a session whose service field is null is rejected
NoServiceRejected == [][Called /\ service = 0 => Rejected]_vars

\* C39: an operation with a blank text or an empty or unavailable mode, and
\* every operation on a session that is not started (isStarted is false:
\* never started, start not completed, or disposed), throws, sends no
\* message to the service, leaves the state field alone and emits no state
\* event.
C39_InvalidRejected ==
    [][Called /\ (ArgumentError(TheCall.op, TheCall.arg, availableModes) # "none" \/ ~isStarted)
          => Rejected]_vars

\* ------------------------------------------------------------ getCommandDecision
\* getCommandDecision calls the model makes under one configuration
MaxDecisions == 1

\* longest allowed and denied lists drawn
MaxPatterns == 2

\* patterns of the lists: "*", "rm", "r", " rm " and ""
Patterns == {<<"*">>, <<"r", "m">>, <<"r">>, <<" ", "r", "m", " ">>, <<>>}

PatternLists == UNION {[1..n -> Patterns] : n \in 0..MaxPatterns}

\* message texts: "", "r", "rm", "rm r", "rmr", " rm ", and the JSON texts
\* written {c} for {"command": "c"}: {rm}, {rm r}, {} and the broken {rm
MessageBodies ==
    {<<>>, <<"r">>, <<"r", "m">>, <<"r", "m", " ", "r">>, <<"r", "m", "r">>,
     <<" ", "r", "m", " ">>, <<"{", "r", "m", "}">>, <<"{", "r", "m", " ", "r", "}">>,
     <<"{", "}">>, <<"{", "r", "m">>}

\* safeJsonParse(value)?.command: null for an empty text, for a text that
\* does not start with a brace after trimming, and for a text JSON.parse
\* rejects; else the command of the object (absent when it has none)
safeJsonParse(value) ==
    LET trimmed == Trim(value) IN
    IF value = <<>> THEN Null
    ELSE IF ~StartsWith(trimmed, <<"{">>) THEN Null
    ELSE IF trimmed[Len(trimmed)] # "}" THEN Null
    ELSE Some(SubSeq(trimmed, 2, Len(trimmed) - 1))

\* one pattern of the list against the trimmed command
MatchesPattern(normalizedCommand, pattern) ==
    LET normalizedPattern == Trim(pattern) IN
    IF normalizedPattern = <<"*">> THEN TRUE
    ELSE IF normalizedPattern = normalizedCommand THEN TRUE
    ELSE IF StartsWith(normalizedCommand, normalizedPattern)
    THEN \/ Len(normalizedCommand) = Len(normalizedPattern)
         \/ normalizedCommand[Len(normalizedPattern) + 1] \in {" ", "\t"}
    ELSE FALSE

matchesCommandPattern(command, patterns) ==
    IF Len(patterns) = 0 THEN FALSE
    ELSE \E i \in 1..Len(patterns) : MatchesPattern(Trim(command), patterns[i])

\* the command the decision is taken on: parsed.command when it is a
\* non-empty string, else the message text
CommandOf(text) ==
    LET parsed == safeJsonParse(text) IN
    IF parsed.found /\ parsed.text # <<>> THEN parsed.text ELSE text

\* faulty variant: the allowed list is consulted before the denied list
getCommandDecisionAllowFirst(text, cfg) ==
    IF ~cfg.enabled THEN "manual"
    ELSE IF Len(cfg.allowed) = 0 THEN "manual"
    ELSE IF matchesCommandPattern(CommandOf(text), cfg.allowed) THEN "auto-approve"
    ELSE "manual"

getCommandDecision(text, cfg) ==
    IF ~cfg.enabled THEN "manual"
    ELSE IF matchesCommandPattern(CommandOf(text), cfg.denied) THEN "manual"
    ELSE IF Len(cfg.allowed) = 0 THEN "manual"
    ELSE IF matchesCommandPattern(CommandOf(text), cfg.allowed) THEN "auto-approve"
    ELSE "manual"

\* the client holds some auto-approval configuration
InitApproval ==
    /\ suggestionsHistory = <<>>
    /\ debounceTimer = 0
    /\ timers = {}
    /\ pendingRequests = <<>>
    /\ fetches = <<>>
    /\ trig = <<>>
    /\ microQ = <<>>
    /\ console = {}
    /\ writes = {}
    /\ disposeCount = 0
    /\ inserted = <<>>
    /\ matched = <<>>
    /\ model = TRUE
    /\ ignoreController = "none"
    /\ calls = <<>>
    /\ costCalls = <<>>
    /\ reuseLookups = <<>>
    /\ BuildInit
    /\ StreamInit
    /\ SessionInit
    /\ config \in [enabled : BOOLEAN, allowed : PatternLists, denied : PatternLists]
    /\ decisions = <<>>

\* a command ask arrives and getCommandDecision is applied to it
Decide(text) ==
    /\ Len(decisions) < MaxDecisions
    /\ decisions' = Append(decisions, [text |-> text, action |-> getCommandDecision(text, config)])
    /\ UNCHANGED <<config, providerVars, buildVars, streamVars, sessionVars>>

NextApproval == \E text \in MessageBodies : Decide(text)

SpecApproval == InitApproval /\ [][NextApproval]_vars

\* the command of the decision matches a pattern of the denied list
Denied(d) == matchesCommandPattern(CommandOf(d.text), config.denied)

\* C40: no decision on a command that matches a denied pattern is
\* auto-approve, whatever the allowed list holds, and every decision taken with
\* execution auto-approval disabled or with an empty allowed list is manual.
C40_DenyWins ==
    \A i \in 1..Len(decisions) :
        /\ Denied(decisions[i]) => decisions[i].action # "auto-approve"
        /\ ~config.enabled \/ Len(config.allowed) = 0 => decisions[i].action = "manual"

\* a command that matches a denied pattern was decided under an enabled
\* configuration whose allowed list holds "*" and matches it too
C40_Witness ==
    /\ config.enabled
    /\ \E k \in 1..Len(config.allowed) : config.allowed[k] = <<"*">>
    /\ \E i \in 1..Len(decisions) :
          /\ Denied(decisions[i])
          /\ config.denied # <<<<"*">>>>
          /\ decisions[i].action = "manual"

\* an allowed command is approved when nothing denies it
SomeApproved ==
    \E i \in 1..Len(decisions) : decisions[i].action = "auto-approve"

====
